---- MODULE Spec2Model ----
(***************************************************************************)
(* Model of the IssuesGenerator front end (project/frontend/script.js):    *)
(* the GitHubIssuesCreator object, its form, its preview and the requests  *)
(* it sends.                                                                *)
(*                                                                          *)
(* Text is a sequence of characters, each character a one-character        *)
(* string.  Three characters that TLA+ strings cannot hold are written as  *)
(* the tokens "CHECK" (U+2713), "CROSS" (U+2717) and "BACKTICK" (U+0060).  *)
(***************************************************************************)
EXTENDS Integers, Sequences, FiniteSets, TLC

\* null, for a value that is text otherwise, and for one that is a name
Null == <<"null">>
NoName == "null"

(***************************************************************************)
(* Strings                                                                  *)
(***************************************************************************)
Range(s) == { s[i] : i \in 1..Len(s) }

\* String.prototype.substring(from) / (from, to) on 1-based positions
Drop(s, n) == SubSeq(s, n + 1, Len(s))
Take(s, n) == SubSeq(s, 1, n)

RECURSIVE Flatten(_)
Flatten(ss) == IF ss = <<>> THEN <<>> ELSE Head(ss) \o Flatten(Tail(ss))

\* s occurs in t as a contiguous substring
Contains(t, s) ==
    \E i \in 1..(Len(t) - Len(s) + 1) : SubSeq(t, i, i + Len(s) - 1) = s

\* the number of (possibly overlapping) occurrences of s in t
Occurrences(t, s) ==
    Cardinality({ i \in 1..(Len(t) - Len(s) + 1) : SubSeq(t, i, i + Len(s) - 1) = s })

WhiteSpace == {" ", "\n", "\t"}

RECURSIVE TrimStart(_)
TrimStart(s) ==
    IF s # <<>> /\ Head(s) \in WhiteSpace THEN TrimStart(Tail(s)) ELSE s

RECURSIVE TrimEnd(_)
TrimEnd(s) ==
    IF s # <<>> /\ s[Len(s)] \in WhiteSpace THEN TrimEnd(Take(s, Len(s) - 1)) ELSE s

\* String.prototype.trim
Trim(s) == TrimEnd(TrimStart(s))

(***************************************************************************)
(* Placeholder substitution                                                 *)
(*   new RegExp('\\{' + key + '\\}', 'g') ; text.replace(placeholder, value) *)
(* The key is pasted into the pattern unescaped, so its characters are     *)
(* pattern syntax: "." matches any character but a line terminator, and a  *)
(* "(" opens a group that nothing closes, which makes the RegExp           *)
(* constructor throw a SyntaxError.  Every other character of the keys     *)
(* modelled here is a literal.                                              *)
(***************************************************************************)
LineTerminators == {"\n"}

\* does new RegExp(...) accept the pattern built from key
RegExpCompiles(key) == "(" \notin Range(key)

\* the pattern: an escaped "{", the key's characters as atoms, an escaped "}"
Placeholder(key) == <<"{">> \o key \o <<"}">>

\* atom k of the pattern against character c (the braces are escaped: literal)
AtomMatches(pat, k, c) ==
    IF pat[k] = "." /\ k \notin {1, Len(pat)}
    THEN c \notin LineTerminators
    ELSE pat[k] = c

MatchAt(pat, s, i) ==
    /\ i + Len(pat) - 1 <= Len(s)
    /\ \A k \in 1..Len(pat) : AtomMatches(pat, k, s[i + k - 1])

\* GetSubstitution of ECMAScript for a pattern without capture groups:
\* $$ -> $, $& -> the match, $BACKTICK -> the text before it, $' -> the text
\* after it; any other $ is a literal
RECURSIVE GetSubstitution(_, _, _, _)
GetSubstitution(repl, matched, before, after) ==
    IF repl = <<>> THEN <<>>
    ELSE IF Head(repl) = "$" /\ Len(repl) >= 2 /\ repl[2] \in {"$", "&", "BACKTICK", "'"}
    THEN (CASE repl[2] = "$" -> <<"$">>
            [] repl[2] = "&" -> matched
            [] repl[2] = "BACKTICK" -> before
            [] repl[2] = "'" -> after)
         \o GetSubstitution(Drop(repl, 2), matched, before, after)
    ELSE <<Head(repl)>> \o GetSubstitution(Tail(repl), matched, before, after)

\* String.prototype.replace(regexp with flag g, string): every match, left to
\* right, non-overlapping, of pat in s from position i on
RECURSIVE ReplaceFrom(_, _, _, _)
ReplaceFrom(pat, s, repl, i) ==
    IF i > Len(s) THEN <<>>
    ELSE IF MatchAt(pat, s, i)
    THEN GetSubstitution(repl, SubSeq(s, i, i + Len(pat) - 1),
                         Take(s, i - 1), Drop(s, i + Len(pat) - 1))
         \o ReplaceFrom(pat, s, repl, i + Len(pat))
    ELSE <<s[i]>> \o ReplaceFrom(pat, s, repl, i + 1)

ReplaceAll(pat, s, repl) == ReplaceFrom(pat, s, repl, 1)

\* ToString of a replacement value that is not a string (a checkbox's checked)
BoolToString(b) == IF b THEN <<"t", "r", "u", "e">> ELSE <<"f", "a", "l", "s", "e">>

Thrown == <<"SyntaxError">>

\* Object.entries(fieldValues).forEach(([key, value]) => text = text.replace(...)):
\* the entries in order, each applied to the result of the one before it;
\* Thrown when a key's pattern does not compile (the loop is left by the throw)
RECURSIVE Substitute(_, _)
Substitute(text, entries) ==
    IF entries = <<>> THEN text
    ELSE IF ~RegExpCompiles(Head(entries).key) THEN Thrown
    ELSE Substitute(ReplaceAll(Placeholder(Head(entries).key), text, Head(entries).value),
                    Tail(entries))

(***************************************************************************)
(* The markdown rewrites of updatePreview, in the order of the code        *)
(***************************************************************************)
\* the least position >= from of s that holds a character of cs, 0 if none
FirstOf(s, cs, from) ==
    IF \E i \in from..Len(s) : s[i] \in cs
    THEN CHOOSE i \in from..Len(s) : s[i] \in cs /\ \A j \in from..(i - 1) : s[j] \notin cs
    ELSE 0

\* d stands in s at position i
At(s, d, i) == i >= 1 /\ i + Len(d) - 1 <= Len(s) /\ SubSeq(s, i, i + Len(d) - 1) = d

StartsWith(s, d) == At(s, d, 1)

RECURSIVE SplitLines(_)
SplitLines(s) ==
    LET i == FirstOf(s, {"\n"}, 1)
    IN  IF i = 0 THEN <<s>> ELSE <<Take(s, i - 1)>> \o SplitLines(Drop(s, i))

RECURSIVE JoinLines(_)
JoinLines(ls) ==
    IF Len(ls) = 1 THEN ls[1] ELSE ls[1] \o <<"\n">> \o JoinLines(Tail(ls))

\* A replace whose pattern starts with ^ and has the flags g and m, and whose
\* "." stops at the end of the line, rewrites each line it matches: the rule
\* on one line, then on every line of the text

Hashes(n) == [i \in 1..n |-> "#"]
HOpen == <<"<h1>", "<h2>", "<h3>", "<h4>", "<h5>", "<h6>">>
HClose == <<"</h1>", "</h2>", "</h3>", "</h4>", "</h5>", "</h6>">>

\* .replace(/^#{n} (.*$)/gm, '<hn>$1</hn>') on one line
HeaderLine(n, line) ==
    IF StartsWith(line, Hashes(n) \o <<" ">>)
    THEN <<HOpen[n]>> \o Drop(line, n + 1) \o <<HClose[n]>>
    ELSE line

RECURSIVE Headers(_, _)
Headers(s, n) ==
    IF n > 6 THEN s
    ELSE LET ls == SplitLines(s)
         IN  Headers(JoinLines([i \in 1..Len(ls) |-> HeaderLine(n, ls[i])]), n + 1)

\* the closer of the lazy d(.*?)d for an opener at i: the least j past the
\* opener where d stands again with no line terminator in between, 0 if none
Closer(s, d, i) ==
    LET ok(j) == At(s, d, j) /\ \A k \in (i + Len(d))..(j - 1) : s[k] \notin LineTerminators
    IN  IF \E j \in (i + Len(d))..Len(s) : ok(j)
        THEN CHOOSE j \in (i + Len(d))..Len(s) : ok(j) /\ \A k \in (i + Len(d))..(j - 1) : ~ok(k)
        ELSE 0

\* .replace(/d(.*?)d/g, open + '$1' + close) from position i on
RECURSIVE Emphasis(_, _, _, _, _)
Emphasis(s, d, open, close, i) ==
    IF i > Len(s) THEN <<>>
    ELSE IF At(s, d, i) /\ Closer(s, d, i) # 0
    THEN LET j == Closer(s, d, i)
         IN  <<open>> \o SubSeq(s, i + Len(d), j - 1) \o <<close>>
             \o Emphasis(s, d, open, close, j + Len(d))
    ELSE <<s[i]>> \o Emphasis(s, d, open, close, i + 1)

Bold(s) == Emphasis(s, <<"*", "*">>, "<strong>", "</strong>", 1)
Italic(s) == Emphasis(s, <<"*">>, "<em>", "</em>", 1)

\* .replace(/BACKTICK([^BACKTICK]+)BACKTICK/g, '<code>$1</code>') from i on
RECURSIVE InlineCode(_, _)
InlineCode(s, i) ==
    IF i > Len(s) THEN <<>>
    ELSE LET j == FirstOf(s, {"BACKTICK"}, i + 1)
         IN  IF s[i] = "BACKTICK" /\ j > i + 1
             THEN <<"<code>">> \o SubSeq(s, i + 1, j - 1) \o <<"</code>">> \o InlineCode(s, j + 1)
             ELSE <<s[i]>> \o InlineCode(s, i + 1)

\* \d and \w
Digits == {"0", "1", "2", "3", "4", "5", "6", "7", "8", "9"}
WordChars ==
    Digits \cup {"_"} \cup
    {"a", "b", "c", "d", "e", "f", "g", "h", "i", "j", "k", "l", "m",
     "n", "o", "p", "q", "r", "s", "t", "u", "v", "w", "x", "y", "z"} \cup
    {"A", "B", "C", "D", "E", "F", "G", "H", "I", "J", "K", "L", "M",
     "N", "O", "P", "Q", "R", "S", "T", "U", "V", "W", "X", "Y", "Z"}
Fence == <<"BACKTICK", "BACKTICK", "BACKTICK">>

\* the end of the greedy run of characters of cs that starts at i (i - 1 if empty)
RECURSIVE RunEnd(_, _, _)
RunEnd(s, cs, i) == IF i <= Len(s) /\ s[i] \in cs THEN RunEnd(s, cs, i + 1) ELSE i - 1

\* .replace(/FENCE(\w+)?\n([\s\S]*?)\nFENCE/g,
\*          '<pre><code class="language-$1">$2</code></pre>') from i on
RECURSIVE CodeBlock(_, _)
CodeBlock(s, i) ==
    IF i > Len(s) THEN <<>>
    ELSE LET w == RunEnd(s, WordChars, i + 3)       \* the last character of the language
             ends == { j \in (w + 2)..Len(s) : At(s, <<"\n">> \o Fence, j) }
         IN  IF At(s, Fence, i) /\ At(s, <<"\n">>, w + 1) /\ ends # {}
             THEN LET j == CHOOSE e \in ends : \A f \in ends : e <= f
                  IN  <<"<pre><code class=\"language-">> \o SubSeq(s, i + 3, w) \o <<"\">">>
                      \o SubSeq(s, w + 2, j - 1) \o <<"</code></pre>">> \o CodeBlock(s, j + 4)
             ELSE <<s[i]>> \o CodeBlock(s, i + 1)

\* the match of \[([^\]]{min,})\]\(([^)]+)\) with its "[" at position i:
\* <<position of "]", position of ")">>, or <<0, 0>> if it does not match
BracketParen(s, i, min) ==
    LET j == FirstOf(s, {"]"}, i + 1)
        k == FirstOf(s, {")"}, j + 2)
    IN  IF /\ i <= Len(s) /\ s[i] = "["
           /\ j >= i + 1 + min
           /\ At(s, <<"(">>, j + 1)
           /\ k > j + 2
        THEN <<j, k>> ELSE <<0, 0>>

\* .replace(/\[([^\]]+)\]\(([^)]+)\)/g,
\*          '<a href="$2" target="_blank" rel="noopener">$1</a>') from i on
RECURSIVE Links(_, _)
Links(s, i) ==
    IF i > Len(s) THEN <<>>
    ELSE LET m == BracketParen(s, i, 1)
         IN  IF m # <<0, 0>>
             THEN <<"<a href=\"">> \o SubSeq(s, m[1] + 2, m[2] - 1)
                  \o <<"\" target=\"_blank\" rel=\"noopener\">">>
                  \o SubSeq(s, i + 1, m[1] - 1) \o <<"</a>">> \o Links(s, m[2] + 1)
             ELSE <<s[i]>> \o Links(s, i + 1)

\* .replace(/!\[([^\]]*)\]\(([^)]+)\)/g, '<img src="$2" alt="$1" style="...">') from i on
RECURSIVE Images(_, _)
Images(s, i) ==
    IF i > Len(s) THEN <<>>
    ELSE LET m == BracketParen(s, i + 1, 0)
         IN  IF s[i] = "!" /\ m # <<0, 0>>
             THEN <<"<img src=\"">> \o SubSeq(s, m[1] + 2, m[2] - 1) \o <<"\" alt=\"">>
                  \o SubSeq(s, i + 2, m[1] - 1)
                  \o <<"\" style=\"max-width: 100%; border-radius: 6px; margin: 10px 0;\">">>
                  \o Images(s, m[2] + 1)
             ELSE <<s[i]>> \o Images(s, i + 1)

\* .replace(/^- (.*)/gm, '<li>$1</li>') on one line
BulletLine(line) ==
    IF StartsWith(line, <<"-", " ">>)
    THEN <<"<li>">> \o Drop(line, 2) \o <<"</li>">> ELSE line

Bullets(s) ==
    LET ls == SplitLines(s) IN JoinLines([i \in 1..Len(ls) |-> BulletLine(ls[i])])

\* .replace(/^(\d+)\. (.*)/gm, '<li>$2</li>') on one line
NumberedLine(line) ==
    LET d == RunEnd(line, Digits, 1)
    IN  IF d >= 1 /\ At(line, <<".", " ">>, d + 1)
        THEN <<"<li>">> \o Drop(line, d + 2) \o <<"</li>">> ELSE line

Numbered(s) ==
    LET ls == SplitLines(s) IN JoinLines([i \in 1..Len(ls) |-> NumberedLine(ls[i])])

\* .replace(/^> (.*)/gm, '<blockquote>$1</blockquote>') on one line
QuoteLine(line) ==
    IF StartsWith(line, <<">", " ">>)
    THEN <<"<blockquote>">> \o Drop(line, 2) \o <<"</blockquote>">> ELSE line

Quotes(s) ==
    LET ls == SplitLines(s) IN JoinLines([i \in 1..Len(ls) |-> QuoteLine(ls[i])])

\* .replace(/^---$/gm, '<hr>') on one line
RuleLine(line) == IF line = <<"-", "-", "-">> THEN <<"<hr>">> ELSE line

Rules(s) ==
    LET ls == SplitLines(s) IN JoinLines([i \in 1..Len(ls) |-> RuleLine(ls[i])])

\* .replace(/\n\n/g, '</p><p>') from i on
RECURSIVE Paragraphs(_, _)
Paragraphs(s, i) ==
    IF i > Len(s) THEN <<>>
    ELSE IF At(s, <<"\n", "\n">>, i) THEN <<"</p>", "<p>">> \o Paragraphs(s, i + 2)
    ELSE <<s[i]>> \o Paragraphs(s, i + 1)

\* .replace(/\n/g, '<br>')
LineBreaks(s) == [i \in 1..Len(s) |-> IF s[i] = "\n" THEN "<br>" ELSE s[i]]

\* html.replace(/(<li>.*<\/li>)/gs, '<ul>$1</ul>'): the greedy .* with flag s
\* runs from the first <li> to the last </li> of the whole text
WrapLists(s) ==
    LET i == FirstOf(s, {"<li>"}, 1)
        closers == { j \in (i + 1)..Len(s) : s[j] = "</li>" }
    IN  IF i = 0 \/ closers = {} THEN s
        ELSE LET j == CHOOSE c \in closers : \A e \in closers : e <= c
             IN  Take(s, i - 1) \o <<"<ul>">> \o SubSeq(s, i, j) \o <<"</ul>">> \o Drop(s, j)

\* the html with its empty paragraphs left in
CleanEmpty_Off(s, i) == s

\* html.replace(/<p>\s*<\/p>/g, '') from i on
RECURSIVE CleanEmpty(_, _)
CleanEmpty(s, i) ==
    IF i > Len(s) THEN <<>>
    ELSE LET e == RunEnd(s, WhiteSpace, i + 1)
         IN  IF s[i] = "<p>" /\ At(s, <<"</p>">>, e + 1)
             THEN CleanEmpty(s, e + 2)
             ELSE <<s[i]>> \o CleanEmpty(s, i + 1)

\* the chain with the italic replace before the bold one
MarkdownToHtml_ItalicFirst(md) ==
    LET h  == Headers(md, 1)
        e  == Bold(Italic(h))
        c  == CodeBlock(InlineCode(e, 1), 1)
        l  == Images(Links(c, 1), 1)
        li == Numbered(Bullets(l))
        q  == Rules(Quotes(li))
        br == LineBreaks(Paragraphs(q, 1))
    IN  CleanEmpty(<<"<p>">> \o WrapLists(br) \o <<"</p>">>, 1)

\* the chain of replaces of updatePreview on the substituted markdown
MarkdownToHtml(md) ==
    LET h  == Headers(md, 1)
        e  == Italic(Bold(h))
        c  == CodeBlock(InlineCode(e, 1), 1)
        l  == Images(Links(c, 1), 1)
        li == Numbered(Bullets(l))
        q  == Rules(Quotes(li))
        br == LineBreaks(Paragraphs(q, 1))
    IN  CleanEmpty(<<"<p>">> \o WrapLists(br) \o <<"</p>">>, 1)

\* '<p style="color: #8b949e; text-align: center; padding: 40px;">Preview will appear here</p>'
PreviewPlaceholder == <<"<p style=...>", "Preview will appear here", "</p>">>

(***************************************************************************)
(* The page                                                                 *)
(***************************************************************************)
VARIABLES
    currentUser, currentRepository, currentToken,   \* this.current*: the session
    currentTemplate,                                \* this.currentTemplate
    templates,                                      \* this.templates, as the names of the cards shown
    savedRepositories,                              \* this.savedRepositories
    title, body,                                    \* #issue-title, #issue-body
    fields,                                         \* the controls [id^="field-"], in document order
    preview,                                        \* #preview.innerHTML
    processedMarkdown,                              \* the substituted text #preview was rendered from (Null under the placeholder)
    hidden,                                         \* the sections that carry the class "hidden"
    listening,                                      \* setupEventListeners has run
    initPc,                                         \* the await at which init() stands
    net,                                            \* the fetches in flight, in the order sent
    timers,                                         \* the pending setTimeout callbacks
    draft,                                          \* localStorage issue_draft
    result,                                         \* #result: the message shown last
    uncaught,                                       \* the handler that ran last ended by an uncaught exception
    console                                         \* console.log: of each object logged with credentials, the credentials

session == <<currentUser, currentRepository, currentToken>>
form == <<title, body, fields>>
shown == <<preview, processedMarkdown>>
vars == <<currentUser, currentRepository, currentToken, currentTemplate, templates,
          savedRepositories, title, body, fields, preview, processedMarkdown, hidden,
          listening, initPc, net, timers, draft, result, uncaught, console>>

Sections == {"connection-section", "template-section", "issue-creation-section"}
Visible(section) == section \notin hidden

\* classList.add('hidden') on one section and classList.remove('hidden') on another
Switch(h, hide, show) == (h \cup {hide}) \ {show}

(***************************************************************************)
(* The form's field controls                                                *)
(***************************************************************************)
\* a control: its name (the id without "field-"), its type, its value, its
\* checked state, its required attribute and, for a select, its options
Control(name, type, value, checked, required, options) ==
    [name |-> name, type |-> type, value |-> value, checked |-> checked,
     required |-> required, options |-> options]

\* a checkbox without a value attribute has the value "on"
On == <<"o", "n">>

\* renderTemplateFields: the control built from one field of the schema
RenderField(f) ==
    CASE f.type = "checkbox" -> Control(f.name, "checkbox", On, f.default_value # <<>>, FALSE, <<>>)
      [] f.type = "select" ->
            Control(f.name, "select",
                    IF \E i \in 1..Len(f.options) : f.options[i] = f.default_value
                    THEN f.default_value ELSE <<>>,
                    FALSE, f.required, f.options)
      [] OTHER -> Control(f.name, f.type, f.default_value, FALSE, f.required, <<>>)

RenderTemplateFields(schema) == [i \in 1..Len(schema) |-> RenderField(schema[i])]

Yes == <<"CHECK", " ", "Y", "e", "s">>
No == <<"CROSS", " ", "N", "o">>

\* Object.entries of an object filled by fieldValues[k] = v for the pairs in
\* order: a key stands where it was first set and holds the value set last
\* (no key of the model is an array index, which would come first)
RECURSIVE ObjectEntries(_)
ObjectEntries(pairs) ==
    IF pairs = <<>> THEN <<>>
    ELSE LET k == Head(pairs).key
             same == SelectSeq(pairs, LAMBDA q : q.key = k)
             rest == SelectSeq(pairs, LAMBDA q : q.key # k)
         IN  <<same[Len(same)]>> \o ObjectEntries(rest)

\* the fieldValues of updatePreview: a checkbox gives its yes/no text
PreviewFieldValues(fs) ==
    ObjectEntries([i \in 1..Len(fs) |->
        [key |-> fs[i].name,
         value |-> IF fs[i].type = "checkbox"
                   THEN (IF fs[i].checked THEN Yes ELSE No)
                   ELSE fs[i].value]])

\* the fieldValues of createIssue: a checkbox gives its boolean, which
\* replace() turns into a string
IssueFieldValues(fs) ==
    ObjectEntries([i \in 1..Len(fs) |->
        [key |-> fs[i].name,
         value |-> IF fs[i].type = "checkbox"
                   THEN BoolToString(fs[i].checked)
                   ELSE fs[i].value]])

\* updatePreview as it would be if it rendered the body as typed, its tokens
\* left in
UpdatePreview_Raw(b, fs, oldPreview, oldProcessed) ==
    IF Trim(b) = <<>>
    THEN [preview |-> PreviewPlaceholder, processed |-> Null, threw |-> FALSE]
    ELSE [preview |-> MarkdownToHtml(b), processed |-> b, threw |-> FALSE]

\* updatePreview as it would be if it kept an earlier render of a body that
\* is not blank instead of rendering again
UpdatePreview_Cached(b, fs, oldPreview, oldProcessed) ==
    IF Trim(b) = <<>>
    THEN [preview |-> PreviewPlaceholder, processed |-> Null, threw |-> FALSE]
    ELSE LET md == Substitute(b, PreviewFieldValues(fs))
         IN  IF md = Thrown
             THEN [preview |-> oldPreview, processed |-> oldProcessed, threw |-> TRUE]
             ELSE IF oldProcessed # Null
             THEN [preview |-> oldPreview, processed |-> oldProcessed, threw |-> FALSE]
             ELSE [preview |-> MarkdownToHtml(md), processed |-> md, threw |-> FALSE]

\* updatePreview on a form: what it leaves in #preview, what it handed to the
\* rewrites, and whether it threw
UpdatePreview(b, fs, oldPreview, oldProcessed) ==
    IF Trim(b) = <<>>
    THEN [preview |-> PreviewPlaceholder, processed |-> Null, threw |-> FALSE]
    ELSE LET md == Substitute(b, PreviewFieldValues(fs))
         IN  IF md = Thrown
             THEN [preview |-> oldPreview, processed |-> oldProcessed, threw |-> TRUE]
             ELSE [preview |-> MarkdownToHtml(md), processed |-> md, threw |-> FALSE]


(***************************************************************************)
(* What the user types and what the server holds                            *)
(***************************************************************************)
Field(name, type, required, default_value, options) ==
    [name |-> name, type |-> type, required |-> required,
     default_value |-> default_value, options |-> options]

\* GET /api/templates/<name>: data.template and data.fields.  The field names
\* are the server's: one of them, "(", is no valid pattern when pasted
\* between \{ and \}
TemplateDetails(name) ==
    CASE name = "bug" ->
            [template |-> [name |-> "bug", title |-> <<"B">>,
                           body |-> <<"{", "a", "}", " ", "{", "c", "}">>,
                           labels |-> <<"bug">>],
             fields |-> << Field(<<"a">>, "text", TRUE, <<"1">>, <<>>),
                           Field(<<"c">>, "checkbox", FALSE, <<>>, <<>>) >>]
      [] name = "custom" ->
            [template |-> [name |-> "custom", title |-> <<"C">>,
                           body |-> <<"x", "{", "(", "}">>,
                           labels |-> <<>>],
             fields |-> << Field(<<"(">>, "text", FALSE, <<>>, <<>>) >>]

TemplateNames == {"bug", "custom"}

\* this.currentTemplate = null
NoTemplate == [name |-> NoName, title |-> <<>>, body |-> <<>>, labels |-> <<>>]

\* what the user types into #issue-body, #issue-title and a text control
InputBodies == { <<>>, <<" ", "{", "a", "}">>, <<"{", "c", "}">> }
InputTitles == { <<>>, <<"T", " ">> }
InputValues == { <<>>, <<"{", "c", "}">> }

Ghp == <<"g", "h", "p", "_">>
GithubPat == <<"g", "i", "t", "h", "u", "b", "_", "p", "a", "t", "_">>

\* what the user types into #username, #repo-name, #token
Connection(username, repo_name, token) ==
    [username |-> username, repo_name |-> repo_name, token |-> token]
InputConnections ==
    { Connection(<<"u">>, <<"r">>, Ghp \o <<"1">>),
      Connection(<<" ", "v">>, <<"r", " ">>, <<"t">>),
      Connection(<<"u">>, <<" ">>, Ghp \o <<"1">>) }

\* the fetches in flight and the timers pending at once
MaxInFlight == 2
MaxTimers == 2

Request(kind, data) == [kind |-> kind, data |-> data]
\* showResult(message, type) and showLoading(message): what #result shows
\* (of a text built from a response or an exception, its fixed part)
Message(type, text) == [type |-> type, text |-> text]
NoMessage == Message("none", "")

\* of an object written to the console, the credentials it shows; '***' is
\* what verifyAndConnect and createIssue put in the place of the token
Logged(username, repo_name, token) ==
    [username |-> username, repo_name |-> repo_name, token |-> token]
Masked == <<"*", "*", "*">>

\* localStorage without the item issue_draft
NoDraft == [title |-> Null, body |-> Null, template |-> NoName, repository |-> Null]

\* the sequence without its element i
Remove(seq, i) == Take(seq, i - 1) \o Drop(seq, i)

\* how a fetch ends: it rejects; it resolves with a status that is not 2xx
\* (and a body that reports no success); with 2xx and a body that is no JSON;
\* with 2xx and JSON whose success is false; with 2xx and success true
Outcomes == {"rejected", "status", "malformed", "failure", "success"}

\* what a handler makes of the outcome when it throws on !response.ok before
\* it reads the body: the catch ("error"), success false or success true
Checked(outcome) ==
    IF outcome \in {"rejected", "status", "malformed"} THEN "error" ELSE outcome

\* the same for a handler that reads the body whatever the status: a body
\* that is no JSON throws, any other body goes by its success
Unchecked(outcome) ==
    CASE outcome \in {"rejected", "malformed"} -> "error"
      [] outcome = "status" -> "failure"
      [] OTHER -> outcome

(***************************************************************************)
(* constructor and init(): the page as the constructor leaves it, init()    *)
(* standing at its first await (the fetch of testApiConnection)            *)
(***************************************************************************)
Init ==
    /\ currentUser = Null /\ currentRepository = Null /\ currentToken = Null
    /\ currentTemplate = NoTemplate
    /\ templates = {}
    /\ savedRepositories = <<>>
    /\ title = <<>> /\ body = <<>> /\ fields = <<>>
    /\ preview = PreviewPlaceholder
    /\ processedMarkdown = Null
    /\ hidden = {"template-section", "issue-creation-section"}
    /\ listening = FALSE
    /\ initPc = "testApiConnection"
    /\ net = <<>>
    /\ timers = <<>>
    /\ draft = NoDraft
    /\ result = NoMessage
    /\ uncaught = FALSE
    /\ console = {}

\* testApiConnection after its fetch: any JSON body of a 2xx response will
\* do, everything else ends in the catch; init() goes on to loadTemplates and
\* stands at its fetch
TestApiResponse(outcome) ==
    /\ initPc = "testApiConnection"
    /\ result' = IF Checked(outcome) = "error"
                 THEN Message("error", "API connection failed") ELSE result
    /\ initPc' = "loadTemplates"
    /\ uncaught' = FALSE
    /\ UNCHANGED <<session, currentTemplate, templates, savedRepositories, form, shown,
                   hidden, listening, net, timers, draft, console>>

TestApiDone == \E outcome \in Outcomes : TestApiResponse(outcome)

\* loadTemplates after its fetch; init() goes on to loadSavedRepositories
LoadTemplatesResponse(outcome) ==
    /\ initPc = "loadTemplates"
    /\ templates' = IF outcome = "success" THEN TemplateNames ELSE templates
    /\ result' = CASE Checked(outcome) = "success" -> result
                   [] Checked(outcome) = "failure" -> Message("error", "Failed to load templates")
                   [] Checked(outcome) = "error" -> Message("error", "Error loading templates")
    /\ initPc' = "loadSavedRepositories"
    /\ uncaught' = FALSE
    /\ UNCHANGED <<session, currentTemplate, savedRepositories, form, shown,
                   hidden, listening, net, timers, draft, console>>

LoadTemplatesDone == \E outcome \in Outcomes : LoadTemplatesResponse(outcome)

SavedList == << [repo_name |-> <<"r">>, username |-> <<"u">>] >>

\* the lists the server may hold for the user: none saved, or SavedList
ServerLists == {<<>>, SavedList}

\* init()'s loadSavedRepositories after its fetch, then setupEventListeners
\* and checkUrlParams: the listeners of #issue-body and #issue-title are bound
\* only here; a template named in the URL (?template=, one of urlTemplates) is
\* selected by a timer
InitResponse(outcome, urlTemplates) ==
    /\ initPc = "loadSavedRepositories"
    /\ savedRepositories' = IF outcome = "success" THEN SavedList ELSE savedRepositories
    /\ listening' = TRUE
    /\ \E param \in urlTemplates :
        timers' = IF param # NoName /\ param \in templates
                  THEN Append(timers, Request("selectTemplate", param))
                  ELSE timers
    /\ initPc' = "done"
    /\ uncaught' = FALSE
    /\ UNCHANGED <<session, currentTemplate, templates, form, shown, hidden, net, draft,
                   result, console>>

InitDoneWith(urlTemplates) == \E outcome \in Outcomes : InitResponse(outcome, urlTemplates)

\* the page opened with any ?template= or with none
InitDone == InitDoneWith(TemplateNames \cup {NoName})


(***************************************************************************)
(* verifyAndConnect                                                         *)
(***************************************************************************)
\* the click on Connect with c typed into the inputs and #save-to-redis as
\* saveToRedis: the checks, then the POST to /api/verify; a token without a
\* known prefix asks confirm()
VerifyAndConnectWith(connections, saves) ==
    /\ Visible("connection-section")
    /\ \E c \in connections, saveToRedis \in saves, confirmed \in BOOLEAN :
        LET username == Trim(c.username)
            repoName == Trim(c.repo_name)
            token == Trim(c.token)
        IN  IF username = <<>> \/ repoName = <<>> \/ token = <<>>
            THEN /\ result' = Message("error", "Please fill all required fields")
                 /\ UNCHANGED <<net, console>>
            ELSE IF ~StartsWith(token, Ghp) /\ ~StartsWith(token, GithubPat) /\ ~confirmed
            THEN /\ result' = result
                 /\ UNCHANGED <<net, console>>
            ELSE /\ Len(net) < MaxInFlight
                 /\ result' = Message("loading", "Verifying credentials...")
                 /\ console' = console \cup { Logged(username, repoName, Masked) }
                 /\ net' = Append(net, Request("verify",
                                [username |-> username, repo_name |-> repoName,
                                 token |-> token, save_to_redis |-> saveToRedis]))
    /\ uncaught' = FALSE
    /\ UNCHANGED <<session, currentTemplate, templates, savedRepositories, form, shown,
                   hidden, listening, initPc, timers, draft>>

VerifyAndConnect == VerifyAndConnectWith(InputConnections, BOOLEAN)

\* verifyAndConnect as it would be if a success kept a token that is set
VerifyResponse_KeepsToken(i, outcome) ==
        /\ net[i].kind = "verify"
        /\ net' = Remove(net, i)
        /\ IF Unchecked(outcome) = "success"
           THEN /\ currentUser' = net[i].data.username
                /\ currentRepository' = net[i].data.repo_name
                /\ currentToken' = IF currentToken = Null THEN net[i].data.token
                                                         ELSE currentToken
                /\ result' = Message("success", "Successfully connected to repository!")
                /\ hidden' = Switch(hidden, "connection-section", "template-section")
                /\ timers' = timers
                        \o (IF net[i].data.save_to_redis
                            THEN <<Request("loadSavedRepositories", NoName)>> ELSE <<>>)
                        \o <<Request("loadDraft", NoName)>>
                /\ Len(timers') <= MaxTimers
           ELSE /\ result' = Message("error", IF Unchecked(outcome) = "error"
                                              THEN "Connection error"
                                              ELSE "Connection failed")
                /\ UNCHANGED <<session, hidden, timers>>
        /\ uncaught' = FALSE
        /\ UNCHANGED <<currentTemplate, templates, savedRepositories, form, shown,
                       listening, initPc, draft, console>>

\* verifyAndConnect after the fetch of request i: response.ok is not looked
\* at; the fetch rejected or the body no JSON (the catch), success false, or
\* success true
VerifyResponse(i, outcome) ==
        /\ net[i].kind = "verify"
        /\ net' = Remove(net, i)
        /\ IF Unchecked(outcome) = "success"
           THEN /\ currentUser' = net[i].data.username
                /\ currentRepository' = net[i].data.repo_name
                /\ currentToken' = net[i].data.token
                /\ result' = Message("success", "Successfully connected to repository!")
                /\ hidden' = Switch(hidden, "connection-section", "template-section")
                /\ timers' = timers
                        \o (IF net[i].data.save_to_redis
                            THEN <<Request("loadSavedRepositories", NoName)>> ELSE <<>>)
                        \o <<Request("loadDraft", NoName)>>
                /\ Len(timers') <= MaxTimers
           ELSE /\ result' = Message("error", IF Unchecked(outcome) = "error"
                                              THEN "Connection error"
                                              ELSE "Connection failed")
                /\ UNCHANGED <<session, hidden, timers>>
        /\ uncaught' = FALSE
        /\ UNCHANGED <<currentTemplate, templates, savedRepositories, form, shown,
                       listening, initPc, draft, console>>

VerifyDone == \E i \in 1..Len(net), outcome \in Outcomes : VerifyResponse(i, outcome)

\* the timer of verifyAndConnect: loadSavedRepositories up to its fetch
LoadSavedRepositories ==
    \E k \in 1..Len(timers) :
        /\ timers[k].kind = "loadSavedRepositories"
        /\ Len(net) < MaxInFlight
        /\ timers' = Remove(timers, k)
        /\ net' = Append(net, Request("repositories", NoName))
        /\ uncaught' = FALSE
        /\ UNCHANGED <<session, currentTemplate, templates, savedRepositories, form, shown,
                       hidden, listening, initPc, draft, result, console>>

\* loadSavedRepositories after the fetch of request i: success true stores
\* the list; a 404 returns, any other status and a body that is no JSON end
\* in a catch that writes to the console, success false does nothing
LoadSavedRepositoriesResponse(i, outcome) ==
        /\ net[i].kind = "repositories"
        /\ net' = Remove(net, i)
        /\ \E list \in ServerLists :
            savedRepositories' = IF Checked(outcome) = "success" THEN list
                                                                ELSE savedRepositories
        /\ uncaught' = FALSE
        /\ UNCHANGED <<session, currentTemplate, templates, form, shown, hidden, listening,
                       initPc, timers, draft, result, console>>

LoadSavedRepositoriesDone ==
    \E i \in 1..Len(net), outcome \in Outcomes : LoadSavedRepositoriesResponse(i, outcome)

(***************************************************************************)
(* selectTemplate                                                           *)
(***************************************************************************)
\* the click on a template card: selectTemplate(name) up to its fetch
SelectTemplate ==
    \E name \in templates :
        /\ Visible("template-section")
        /\ Len(net) < MaxInFlight
        /\ net' = Append(net, Request("template", name))
        /\ uncaught' = FALSE
        /\ UNCHANGED <<session, currentTemplate, templates, savedRepositories, form, shown,
                       hidden, listening, initPc, timers, draft, result, console>>

\* the timer of checkUrlParams: selectTemplate(template) up to its fetch
SelectTemplateFromUrl ==
    \E k \in 1..Len(timers) :
        /\ timers[k].kind = "selectTemplate"
        /\ Len(net) < MaxInFlight
        /\ timers' = Remove(timers, k)
        /\ net' = Append(net, Request("template", timers[k].data))
        /\ uncaught' = FALSE
        /\ UNCHANGED <<session, currentTemplate, templates, savedRepositories, form, shown,
                       hidden, listening, initPc, draft, result, console>>

\* the form as a successful template response leaves it: the lines of
\* selectTemplate from this.currentTemplate = ... to this.updatePreview()
TemplateLoaded(d) ==
    LET fs == RenderTemplateFields(d.fields)
        up == UpdatePreview(d.template.body, fs, preview, processedMarkdown)
    IN  /\ currentTemplate' = d.template
        /\ title' = d.template.title
        /\ body' = d.template.body
        /\ fields' = fs
        /\ hidden' = Switch(hidden, "template-section", "issue-creation-section")
        /\ preview' = up.preview
        /\ processedMarkdown' = up.processed
        /\ result' = IF up.threw THEN Message("error", "Error loading template")
                                 ELSE Message("success", "Template loaded")

\* selectTemplate after the fetch of request i: a response that is not ok or no JSON (the
\* catch), success false (nothing is done), or success true
SelectTemplateResponse(i, outcome) ==
        /\ net[i].kind = "template"
        /\ net' = Remove(net, i)
        /\ CASE Checked(outcome) = "success" -> TemplateLoaded(TemplateDetails(net[i].data))
             [] Checked(outcome) = "failure" ->
                    UNCHANGED <<currentTemplate, form, hidden, shown, result>>
             [] Checked(outcome) = "error" ->
                    /\ result' = Message("error", "Error loading template")
                    /\ UNCHANGED <<currentTemplate, form, hidden, shown>>
        /\ uncaught' = FALSE
        /\ UNCHANGED <<session, templates, savedRepositories, listening, initPc, timers,
                       draft, console>>

SelectTemplateDone ==
    \E i \in 1..Len(net), outcome \in Outcomes : SelectTemplateResponse(i, outcome)


(***************************************************************************)
(* Editing the form                                                         *)
(***************************************************************************)
\* the longest body the toolbar may build
MaxBodyLen == 7

\* a handler that ends by this.updatePreview(): #preview after it, and
\* whether the exception of updatePreview left the handler
Refresh(b, fs) ==
    LET up == UpdatePreview(b, fs, preview, processedMarkdown)
    IN  /\ preview' = up.preview
        /\ processedMarkdown' = up.processed
        /\ uncaught' = up.threw

\* typing into #issue-body: the input listener, once it is bound, runs
\* updatePreview
BodyInputFrom(bodies) ==
    \E b \in bodies :
        /\ Visible("issue-creation-section")
        /\ b # body
        /\ body' = b
        /\ IF listening THEN Refresh(b, fields)
                        ELSE uncaught' = FALSE /\ UNCHANGED shown
        /\ UNCHANGED <<session, currentTemplate, templates, savedRepositories, title, fields,
                       hidden, listening, initPc, net, timers, draft, result, console>>

BodyInput == BodyInputFrom(InputBodies)

\* typing into #issue-title: its input listener runs updatePreview as well
TitleInputFrom(titles) ==
    \E t \in titles :
        /\ Visible("issue-creation-section")
        /\ t # title
        /\ title' = t
        /\ IF listening THEN Refresh(body, fields)
                        ELSE uncaught' = FALSE /\ UNCHANGED shown
        /\ UNCHANGED <<session, currentTemplate, templates, savedRepositories, body, fields,
                       hidden, listening, initPc, net, timers, draft, result, console>>

TitleInput == TitleInputFrom(InputTitles)

\* the values the user can give control f, typing one of values or picking an option
Choices(f, values) == IF f.type = "select" THEN {<<>>} \cup Range(f.options) ELSE values

\* a change of control i: oninput / onchange = "app.updatePreview()"
FieldInputFrom(values) ==
    \E i \in 1..Len(fields) :
        /\ Visible("issue-creation-section")
        /\ \E v \in Choices(fields[i], values) :
            /\ fields[i].type # "checkbox" => v # fields[i].value
            /\ fields' = [fields EXCEPT ![i] =
                            IF @.type = "checkbox"
                            THEN [@ EXCEPT !.checked = ~@]
                            ELSE [@ EXCEPT !.value = v]]
        /\ Refresh(body, fields')
        /\ UNCHANGED <<session, currentTemplate, templates, savedRepositories, title, body,
                       hidden, listening, initPc, net, timers, draft, result, console>>

FieldInput == FieldInputFrom(InputValues)

\* Number.prototype.toString of a positive integer
RECURSIVE ToDecimal(_)
ToDecimal(n) ==
    LET digit == <<"0", "1", "2", "3", "4", "5", "6", "7", "8", "9">>
    IN  IF n < 10 THEN <<digit[n + 1]>> ELSE ToDecimal(n \div 10) \o <<digit[(n % 10) + 1]>>

Chars(word) ==
    CASE word = "link text" -> <<"l", "i", "n", "k", " ", "t", "e", "x", "t">>
      [] word = "alt text" -> <<"a", "l", "t", " ", "t", "e", "x", "t">>
      [] word = "url" -> <<"u", "r", "l">>
      [] word = "image-url" -> <<"i", "m", "a", "g", "e", "-", "u", "r", "l">>
      [] word = "https://example.com" ->
            <<"h", "t", "t", "p", "s", ":", "/", "/", "e", "x", "a", "m", "p", "l", "e",
              ".", "c", "o", "m">>
      [] word = "https://example.com/image.jpg" ->
            <<"h", "t", "t", "p", "s", ":", "/", "/", "e", "x", "a", "m", "p", "l", "e",
              ".", "c", "o", "m", "/", "i", "m", "a", "g", "e", ".", "j", "p", "g">>

Styles == {"bold", "italic", "code", "bullet", "number", "quote", "link", "image"}

\* what the arrow function of map() makes of the line of the given index
StyledLine(style, line, index) ==
    CASE style = "bullet" -> IF Trim(line) # <<>> THEN <<"-", " ">> \o line ELSE <<>>
      [] style = "number" ->
            IF Trim(line) # <<>> THEN ToDecimal(index + 1) \o <<".", " ">> \o line ELSE <<>>
      [] style = "quote" -> <<">", " ">> \o line

\* selectedText.split('\n').map(...).join('\n')
MapSelected(style, sel) ==
    LET ls == SplitLines(sel)
    IN  JoinLines([n \in 1..Len(ls) |-> StyledLine(style, ls[n], n - 1)])

\* the newText of applyStyle for the selected text
NewText(style, sel) ==
    CASE style = "bold" -> <<"*", "*">> \o sel \o <<"*", "*">>
      [] style = "italic" -> <<"*">> \o sel \o <<"*">>
      [] style = "code" ->
            IF "\n" \in Range(sel)
            THEN Fence \o <<"\n">> \o sel \o <<"\n">> \o Fence
            ELSE <<"BACKTICK">> \o sel \o <<"BACKTICK">>
      [] style \in {"bullet", "number", "quote"} -> MapSelected(style, sel)
      [] style = "link" ->
            <<"[">> \o (IF sel # <<>> THEN sel ELSE Chars("link text")) \o <<"]", "(">>
            \o (IF sel # <<>> THEN Chars("url") ELSE Chars("https://example.com")) \o <<")">>
      [] style = "image" ->
            <<"!", "[">> \o (IF sel # <<>> THEN sel ELSE Chars("alt text")) \o <<"]", "(">>
            \o (IF sel # <<>> THEN Chars("image-url")
                              ELSE Chars("https://example.com/image.jpg")) \o <<")">>

\* a toolbar button with the characters start+1..end of #issue-body selected:
\* the whole text, or nothing with the cursor at the end
ApplyStyleWith(styles) ==
    \E style \in styles, start \in {0, Len(body)} :
        \E end \in {Len(body)} :
            /\ Visible("issue-creation-section")
            /\ body' = Take(body, start) \o NewText(style, SubSeq(body, start + 1, end))
                       \o Drop(body, end)
            /\ Len(body') <= MaxBodyLen
            /\ Refresh(body', fields)
            /\ UNCHANGED <<session, currentTemplate, templates, savedRepositories, title,
                           fields, hidden, listening, initPc, net, timers, draft, result,
                           console>>

ApplyStyle == ApplyStyleWith(Styles)

\* refreshPreview
RefreshPreview ==
    /\ Visible("issue-creation-section")
    /\ LET up == UpdatePreview(body, fields, preview, processedMarkdown)
       IN  /\ preview' = up.preview
           /\ processedMarkdown' = up.processed
           /\ uncaught' = up.threw
           /\ result' = IF up.threw THEN result ELSE Message("info", "Preview refreshed")
    /\ UNCHANGED <<session, currentTemplate, templates, savedRepositories, form, hidden,
                   listening, initPc, net, timers, draft, console>>

\* clearForm()
ClearForm ==
    /\ title' = <<>> /\ body' = <<>> /\ fields' = <<>>
    /\ preview' = PreviewPlaceholder /\ processedMarkdown' = Null
    /\ currentTemplate' = NoTemplate
    /\ hidden' = Switch(hidden, "issue-creation-section", "template-section")
    /\ uncaught' = FALSE
    /\ UNCHANGED <<session, templates, savedRepositories, listening, initPc, net, draft, console>>

\* the Clear button, its confirm() accepted
ClearFormClick ==
    /\ Visible("issue-creation-section")
    /\ ClearForm
    /\ UNCHANGED <<timers, result>>

\* the timer of createIssue: clearForm, then the message
ClearFormTimer ==
    \E k \in 1..Len(timers) :
        /\ timers[k].kind = "clearForm"
        /\ timers' = Remove(timers, k)
        /\ ClearForm
        /\ result' = Message("info", "Form cleared. Ready to create another issue.")


(***************************************************************************)
(* createIssue                                                              *)
(***************************************************************************)
\* the controls [id^="field-"][required] whose trimmed value is empty
MissingRequired(fs) == { i \in 1..Len(fs) : fs[i].required /\ Trim(fs[i].value) = <<>> }

\* a createIssue that would substitute into the body as typed
FinalBody_Untrimmed(b, fs) == Substitute(b, IssueFieldValues(fs))

\* the body createIssue sends: the placeholders of the trimmed body replaced
FinalBody(b, fs) == Substitute(Trim(b), IssueFieldValues(fs))

\* a createIssue that would send what the preview shows
IssueData_Rendered(t, b, fs) ==
    [title |-> Trim(t),
     body |-> MarkdownToHtml(FinalBody(b, fs)),
     token |-> currentToken,
     username |-> currentUser,
     repo_name |-> currentRepository,
     labels |-> IF currentTemplate # NoTemplate THEN currentTemplate.labels ELSE <<>>]

\* issueData
IssueData(t, b, fs) ==
    [title |-> Trim(t),
     body |-> FinalBody(b, fs),
     token |-> currentToken,
     username |-> currentUser,
     repo_name |-> currentRepository,
     labels |-> IF currentTemplate # NoTemplate THEN currentTemplate.labels ELSE <<>>]

\* the checks of createIssue without the one of the session
Rejection_NoSession(t, b, fs) ==
    CASE Trim(t) = <<>> -> Message("error", "Please enter issue title")
      [] Trim(b) = <<>> -> Message("error", "Please enter issue body")
      [] MissingRequired(fs) # {} -> Message("error", "Please fill required field")
      [] FinalBody(b, fs) = Thrown -> Message("error", "Error creating issue")
      [] OTHER -> NoMessage

\* the message createIssue ends with before any request, if it does
Rejection(t, b, fs) ==
    CASE currentUser = Null \/ currentRepository = Null \/ currentToken = Null ->
            Message("error", "Please connect to a repository first")
      [] OTHER ->
    CASE Trim(t) = <<>> -> Message("error", "Please enter issue title")
      [] Trim(b) = <<>> -> Message("error", "Please enter issue body")
      [] MissingRequired(fs) # {} -> Message("error", "Please fill required field")
      [] FinalBody(b, fs) = Thrown -> Message("error", "Error creating issue")
      [] OTHER -> NoMessage

\* the Create button or Ctrl+Enter: createIssue up to its first fetch
CreateIssue ==
    /\ Visible("issue-creation-section")
    /\ IF Rejection(title, body, fields) # NoMessage
       THEN /\ result' = Rejection(title, body, fields)
            /\ UNCHANGED <<net, console>>
       ELSE /\ Len(net) < MaxInFlight
            /\ result' = Message("loading", "Creating issue...")
            /\ console' = console \cup { Logged(currentUser, currentRepository, Masked) }
            /\ net' = Append(net, Request("create",
                        [endpoint |-> "/api/issues/create",
                         issueData |-> IssueData(title, body, fields)]))
    /\ uncaught' = FALSE
    /\ UNCHANGED <<session, currentTemplate, templates, savedRepositories, form, shown,
                   hidden, listening, initPc, timers, draft>>

\* the fetch of the main endpoint rejected: the same data goes to the
\* compatibility endpoint
CreateIssueCompat ==
    \E i \in 1..Len(net) :
        /\ net[i].kind = "create"
        /\ net[i].data.endpoint = "/api/issues/create"
        /\ net' = Append(Remove(net, i), Request("create",
                        [endpoint |-> "/api/create-issue",
                         issueData |-> net[i].data.issueData]))
        /\ uncaught' = FALSE
        /\ UNCHANGED <<session, currentTemplate, templates, savedRepositories, form, shown,
                       hidden, listening, initPc, timers, draft, result, console>>

\* createIssue as it would be if a failure took the success branch's timer
\* of clearForm too
CreateIssueResponse_Clearing(i, outcome) ==
        /\ net[i].kind = "create"
        /\ ~(outcome = "rejected" /\ net[i].data.endpoint = "/api/issues/create")
        /\ net' = Remove(net, i)
        /\ IF Unchecked(outcome) = "success"
           THEN /\ result' = Message("success", "Issue Created Successfully!")
                /\ draft' = NoDraft
           ELSE /\ result' = Message("error", IF Unchecked(outcome) = "error"
                                              THEN "Error creating issue"
                                              ELSE "Failed to create issue")
                /\ draft' = draft
        /\ timers' = Append(timers, Request("clearForm", NoName))
        /\ Len(timers') <= MaxTimers
        /\ uncaught' = FALSE
        /\ UNCHANGED <<session, currentTemplate, templates, savedRepositories, form, shown,
                       hidden, listening, initPc, console>>

\* createIssue after the fetch of request i (a rejected fetch of the main
\* endpoint is CreateIssueCompat): response.ok is not looked at; the
\* compatibility fetch rejected or the body no JSON (the catch), success
\* false, or success true
CreateIssueResponse(i, outcome) ==
        /\ net[i].kind = "create"
        /\ ~(outcome = "rejected" /\ net[i].data.endpoint = "/api/issues/create")
        /\ net' = Remove(net, i)
        /\ IF Unchecked(outcome) = "success"
           THEN /\ result' = Message("success", "Issue Created Successfully!")
                /\ draft' = NoDraft
                /\ timers' = Append(timers, Request("clearForm", NoName))
                /\ Len(timers') <= MaxTimers
           ELSE /\ result' = Message("error", IF Unchecked(outcome) = "error"
                                              THEN "Error creating issue"
                                              ELSE "Failed to create issue")
                /\ UNCHANGED <<draft, timers>>
        /\ uncaught' = FALSE
        /\ UNCHANGED <<session, currentTemplate, templates, savedRepositories, form, shown,
                       hidden, listening, initPc, console>>

CreateIssueDone ==
    \E i \in 1..Len(net), outcome \in Outcomes : CreateIssueResponse(i, outcome)

(***************************************************************************)
(* Saved repositories: useRepository and deleteRepository                   *)
(***************************************************************************)
\* the Use button of a saved repository's card: useRepository up to its fetch
UseRepository ==
    \E k \in 1..Len(savedRepositories) :
        /\ Len(net) < MaxInFlight
        /\ net' = Append(net, Request("lookup", savedRepositories[k]))
        /\ uncaught' = FALSE
        /\ UNCHANGED <<session, currentTemplate, templates, savedRepositories, form, shown,
                       hidden, listening, initPc, timers, draft, result, console>>

\* useRepository after the fetch of request i: a response that is not ok or
\* no JSON (the catch); success false, or a list without the repository
\* (nothing is done); or the repository found in the list
UseRepositoryResponse(i, outcome) ==
        /\ net[i].kind = "lookup"
        /\ net' = Remove(net, i)
        /\ \E list \in ServerLists :
            result' = CASE Checked(outcome) = "error" ->
                               Message("error", "Error loading repository")
                        [] Checked(outcome) = "success"
                             /\ \E k \in 1..Len(list) : list[k] = net[i].data ->
                               Message("success", "Repository loaded")
                        [] OTHER -> result
        /\ uncaught' = FALSE
        /\ UNCHANGED <<session, currentTemplate, templates, savedRepositories, form, shown,
                       hidden, listening, initPc, timers, draft, console>>

UseRepositoryDone ==
    \E i \in 1..Len(net), outcome \in Outcomes : UseRepositoryResponse(i, outcome)

\* the Delete button of a saved repository's card, confirm() answered with
\* OK (a refusal returns at once): deleteRepository up to its fetch
DeleteRepository ==
    \E k \in 1..Len(savedRepositories) :
        /\ Len(net) < MaxInFlight
        /\ net' = Append(net, Request("delete", savedRepositories[k].repo_name))
        /\ uncaught' = FALSE
        /\ UNCHANGED <<session, currentTemplate, templates, savedRepositories, form, shown,
                       hidden, listening, initPc, timers, draft, result, console>>

\* deleteRepository after the fetch of request i: response.ok is not looked
\* at; the fetch rejected or the body no JSON (the catch), success false, or
\* success true, which goes on into loadSavedRepositories up to its fetch
DeleteRepositoryResponse(i, outcome) ==
        /\ net[i].kind = "delete"
        /\ IF Unchecked(outcome) = "success"
           THEN /\ result' = Message("success", "Repository removed")
                /\ net' = Append(Remove(net, i), Request("repositories", NoName))
           ELSE /\ result' = Message("error", "Error removing repository")
                /\ net' = Remove(net, i)
        /\ uncaught' = FALSE
        /\ UNCHANGED <<session, currentTemplate, templates, savedRepositories, form, shown,
                       hidden, listening, initPc, timers, draft, console>>

DeleteRepositoryDone ==
    \E i \in 1..Len(net), outcome \in Outcomes : DeleteRepositoryResponse(i, outcome)

(***************************************************************************)
(* Drafts                                                                   *)
(***************************************************************************)
\* the issueData of saveAsDraft (its timestamp left out)
DraftOf(t, b) ==
    [title |-> t, body |-> b,
     template |-> currentTemplate.name,
     repository |-> IF currentRepository # Null
                    THEN currentUser \o <<"/">> \o currentRepository ELSE Null]

\* saveAsDraft(), from its button or Ctrl+S
SaveAsDraft ==
    /\ IF title = <<>> /\ body = <<>>
       THEN UNCHANGED <<draft, result>>
       ELSE /\ draft' = DraftOf(title, body)
            /\ result' = Message("info", "Draft saved locally")
    /\ uncaught' = FALSE
    /\ UNCHANGED <<session, currentTemplate, templates, savedRepositories, form, shown,
                   hidden, listening, initPc, net, timers, console>>

\* the interval set by setupEventListeners: saveAsDraft(true)
AutoSave ==
    /\ listening
    /\ title # <<>> \/ body # <<>>
    /\ draft' = DraftOf(title, body)
    /\ uncaught' = FALSE
    /\ UNCHANGED <<session, currentTemplate, templates, savedRepositories, form, shown,
                   hidden, listening, initPc, net, timers, result, console>>

\* Ctrl+Shift+D: the debug listener logs the app object, the session among
\* its properties, and the draft in local storage
DebugInfo ==
    /\ console' = console \cup { Logged(currentUser, currentRepository, currentToken) }
    /\ uncaught' = FALSE
    /\ UNCHANGED <<session, currentTemplate, templates, savedRepositories, form, shown,
                   hidden, listening, initPc, net, timers, draft, result>>

\* the timer of verifyAndConnect: loadDraft; an exception of updatePreview is
\* caught and logged
LoadDraft ==
    \E k \in 1..Len(timers) :
        /\ timers[k].kind = "loadDraft"
        /\ timers' = Remove(timers, k)
        /\ IF draft # NoDraft /\ Visible("issue-creation-section")
           THEN LET up == UpdatePreview(draft.body, fields, preview, processedMarkdown)
                IN  /\ title' = draft.title
                    /\ body' = draft.body
                    /\ preview' = up.preview
                    /\ processedMarkdown' = up.processed
                    /\ result' = IF up.threw THEN result
                                 ELSE Message("info", "Draft loaded from local storage")
           ELSE UNCHANGED <<title, body, shown, result>>
        /\ uncaught' = FALSE
        /\ UNCHANGED <<session, currentTemplate, templates, savedRepositories, fields, hidden,
                       listening, initPc, net, draft, console>>

Next ==
    \/ TestApiDone \/ LoadTemplatesDone \/ InitDone
    \/ VerifyAndConnect \/ VerifyDone
    \/ LoadSavedRepositories \/ LoadSavedRepositoriesDone
    \/ SelectTemplate \/ SelectTemplateFromUrl \/ SelectTemplateDone
    \/ BodyInput \/ TitleInput \/ FieldInput \/ ApplyStyle \/ RefreshPreview
    \/ ClearFormClick \/ ClearFormTimer
    \/ CreateIssue \/ CreateIssueCompat \/ CreateIssueDone
    \/ UseRepository \/ UseRepositoryDone \/ DeleteRepository \/ DeleteRepositoryDone
    \/ SaveAsDraft \/ AutoSave \/ LoadDraft
    \/ DebugInfo

Spec == Init /\ [][Next]_vars

(***************************************************************************)
(* The substitution on its own: updatePreview and createIssue applied to    *)
(* a body and field controls drawn from bounded sets.  The page stands      *)
(* where init() awaits its third fetch, connected, a template of a blank    *)
(* body loaded and the body typed since (no listener is bound yet, so       *)
(* #preview still shows the placeholder)                                    *)
(***************************************************************************)
\* the pieces a body is typed from, and how many of them
SubstPieces ==
    { Placeholder(<<"a">>), Placeholder(<<"b">>), Placeholder(<<"u">>), <<"x">>, <<" ">> }
MaxPieces == 2

RECURSIVE Concats(_)
Concats(n) ==
    IF n = 0 THEN { <<>> }
    ELSE Concats(n - 1) \cup { s \o p : s \in Concats(n - 1), p \in SubstPieces }

SubstBodies == Concats(MaxPieces)

\* the controls of the form: the names and types are the template's, the
\* values the user's
SubstValues == { <<"X">>, Placeholder(<<"b">>), <<"$", "&">>, <<"$", "$">> }
SubstControls ==
    { Control(<<"a">>, "text", v, FALSE, FALSE, <<>>) : v \in SubstValues }
    \cup { Control(<<"a">>, "checkbox", On, ticked, FALSE, <<>>) : ticked \in BOOLEAN }
    \cup { Control(<<"b">>, "text", <<"X">>, FALSE, FALSE, <<>>),
           Control(<<"b">>, "textarea", Placeholder(<<"a">>), FALSE, FALSE, <<>>),
           Control(<<"b">>, "select", <<"X">>, FALSE, FALSE, << <<"X">> >>),
           Control(<<".">>, "text", <<"X">>, FALSE, FALSE, <<>>),
           Control(<<"(">>, "text", <<"X">>, FALSE, FALSE, <<>>) }
MaxFields == 2

\* the forms of n controls at most, no name twice
RECURSIVE Forms(_)
Forms(n) ==
    IF n = 0 THEN { <<>> }
    ELSE Forms(n - 1)
         \cup { Append(fs, c) : fs \in { f \in Forms(n - 1) : Len(f) = n - 1 },
                                c \in SubstControls }
SubstForms ==
    { fs \in Forms(MaxFields) : \A i, j \in 1..Len(fs) : fs[i].name = fs[j].name => i = j }

InitSubst ==
    /\ currentUser = <<"u">> /\ currentRepository = <<"r">> /\ currentToken = Ghp \o <<"1">>
    /\ currentTemplate = [name |-> "bug", title |-> <<>>, body |-> <<>>, labels |-> <<"bug">>]
    /\ templates = TemplateNames
    /\ savedRepositories = <<>>
    /\ title = <<"T">>
    /\ body \in SubstBodies
    /\ fields \in SubstForms
    /\ preview = PreviewPlaceholder
    /\ processedMarkdown = Null
    /\ hidden = {"connection-section", "template-section"}
    /\ listening = FALSE
    /\ initPc = "loadSavedRepositories"
    /\ net = <<>>
    /\ timers = <<>>
    /\ draft = NoDraft
    /\ result = NoMessage
    /\ uncaught = FALSE
    /\ console = { Logged(currentUser, currentRepository, Masked) }

NextSubst == RefreshPreview \/ CreateIssue

SpecSubst == InitSubst /\ [][NextSubst]_vars

(***************************************************************************)
(* The form and its preview: startup, the connection, the template loads,   *)
(* every way of editing the form, and the timer of loadDraft                *)
(***************************************************************************)
FormConnections == { Connection(<<"u">>, <<"r">>, Ghp \o <<"1">>) }
FormBodies == { <<"{", "a", "}">> }
FormTitles == { <<"T">> }
FormValues == { <<"2">> }
FormStyles == { "bold" }

NextForm ==
    \/ TestApiDone \/ LoadTemplatesDone \/ InitDoneWith({NoName})
    \/ VerifyAndConnectWith(FormConnections, {FALSE}) \/ VerifyDone
    \/ SelectTemplate \/ SelectTemplateDone
    \/ BodyInputFrom(FormBodies) \/ TitleInputFrom(FormTitles) \/ FieldInputFrom(FormValues)
    \/ ApplyStyleWith(FormStyles)
    \/ ClearFormClick
    \/ LoadDraft

SpecForm == Init /\ [][NextForm]_vars

(***************************************************************************)
(* Creating issues, from the page as init() leaves it when its three        *)
(* fetches succeeded: the connection, the template loads, the typing and    *)
(* createIssue with its two endpoints and its timer                         *)
(***************************************************************************)
IssueConnections ==
    { Connection(<<" ", "v">>, <<"r", " ">>, <<"t">>) }
IssueBodies == { <<" ", "{", "a", "}">> }
IssueTitles == { <<"T", " ">> }
IssueValues == { <<"{", "c", "}">> }

NextIssue ==
    \/ VerifyAndConnectWith(IssueConnections, {FALSE}) \/ VerifyDone
    \/ SelectTemplate \/ SelectTemplateDone
    \/ BodyInputFrom(IssueBodies) \/ TitleInputFrom(IssueTitles) \/ FieldInputFrom(IssueValues)
    \/ CreateIssue \/ CreateIssueCompat \/ CreateIssueDone
    \/ ClearFormTimer \/ LoadDraft

InitIssue ==
    /\ currentUser = Null /\ currentRepository = Null /\ currentToken = Null
    /\ currentTemplate = NoTemplate
    /\ templates = TemplateNames
    /\ savedRepositories = SavedList
    /\ title = <<>> /\ body = <<>> /\ fields = <<>>
    /\ preview = PreviewPlaceholder
    /\ processedMarkdown = Null
    /\ hidden = {"template-section", "issue-creation-section"}
    /\ listening = TRUE
    /\ initPc = "done"
    /\ net = <<>>
    /\ timers = <<>>
    /\ draft = NoDraft
    /\ result = NoMessage
    /\ uncaught = FALSE
    /\ console = {}

SpecIssue == InitIssue /\ [][NextIssue]_vars

(***************************************************************************)
(* The sections and the checks of createIssue, from the page as init()      *)
(* leaves it when it was opened with ?template=bug: the timer of            *)
(* checkUrlParams, the connection, the template loads, a title, a body and  *)
(* a required field emptied, createIssue and clearForm                      *)
(***************************************************************************)
InitGuard ==
    /\ currentUser = Null /\ currentRepository = Null /\ currentToken = Null
    /\ currentTemplate = NoTemplate
    /\ templates = TemplateNames
    /\ savedRepositories = SavedList
    /\ title = <<>> /\ body = <<>> /\ fields = <<>>
    /\ preview = PreviewPlaceholder
    /\ processedMarkdown = Null
    /\ hidden = {"template-section", "issue-creation-section"}
    /\ listening = TRUE
    /\ initPc = "done"
    /\ net = <<>>
    /\ timers = <<Request("selectTemplate", "bug")>>
    /\ draft = NoDraft
    /\ result = NoMessage
    /\ uncaught = FALSE
    /\ console = {}

NextGuard ==
    \/ SelectTemplateFromUrl \/ SelectTemplate \/ SelectTemplateDone
    \/ VerifyAndConnectWith(FormConnections, {FALSE}) \/ VerifyDone
    \/ TitleInputFrom({<<>>}) \/ BodyInputFrom({<<" ">>}) \/ FieldInputFrom({<<>>})
    \/ CreateIssue \/ CreateIssueCompat \/ CreateIssueDone
    \/ ClearFormClick \/ ClearFormTimer \/ LoadDraft

SpecGuard == InitGuard /\ [][NextGuard]_vars

(***************************************************************************)
(* After a created issue: the page as the success branch of createIssue     *)
(* leaves it (connected, the template "bug" loaded and submitted as it      *)
(* stands, the success message shown and the timer of clearForm pending),   *)
(* the user going on to the next issue before the timer fires, and the      *)
(* drafts: the interval of the auto-save and the Save Draft button          *)
(***************************************************************************)
Submitted == TemplateDetails("bug")

InitCreated ==
    /\ currentUser = <<"v">> /\ currentRepository = <<"r">> /\ currentToken = <<"t">>
    /\ currentTemplate = Submitted.template
    /\ templates = TemplateNames
    /\ savedRepositories = SavedList
    /\ title = Submitted.template.title
    /\ body = Submitted.template.body
    /\ fields = RenderTemplateFields(Submitted.fields)
    /\ preview = UpdatePreview(body, fields, PreviewPlaceholder, Null).preview
    /\ processedMarkdown = UpdatePreview(body, fields, PreviewPlaceholder, Null).processed
    /\ hidden = {"connection-section", "template-section"}
    /\ listening = TRUE
    /\ initPc = "done"
    /\ net = <<>>
    /\ timers = <<Request("clearForm", NoName)>>
    /\ draft = NoDraft
    /\ result = Message("success", "Issue Created Successfully!")
    /\ uncaught = FALSE
    /\ console = { Logged(currentUser, currentRepository, Masked) }

NextCreated ==
    \/ TitleInputFrom(IssueTitles) \/ BodyInputFrom(IssueBodies)
    \/ FieldInputFrom(IssueValues)
    \/ ClearFormClick \/ SelectTemplate \/ SelectTemplateDone
    \/ ClearFormTimer
    \/ AutoSave \/ SaveAsDraft

SpecCreated == InitCreated /\ [][NextCreated]_vars

(***************************************************************************)
(* Where the token goes: the connection, a template, createIssue with its   *)
(* two endpoints and its timer, the Save Draft button and the debug         *)
(* listener                                                                 *)
(***************************************************************************)
NextConsole ==
    \/ VerifyAndConnectWith(IssueConnections, {FALSE}) \/ VerifyDone
    \/ SelectTemplate \/ SelectTemplateDone
    \/ CreateIssue \/ CreateIssueCompat \/ CreateIssueDone
    \/ ClearFormTimer \/ LoadDraft
    \/ SaveAsDraft
    \/ DebugInfo

SpecConsole == InitIssue /\ [][NextConsole]_vars

(***************************************************************************)
(* The session: every connection the user may type, several verifications  *)
(* in flight, the template loads and clearForm                              *)
(***************************************************************************)
NextSession ==
    \/ VerifyAndConnect \/ VerifyDone
    \/ LoadSavedRepositories \/ LoadSavedRepositoriesDone
    \/ SelectTemplate \/ SelectTemplateDone
    \/ ClearFormClick \/ LoadDraft

SpecSession == InitIssue /\ [][NextSession]_vars

(***************************************************************************)
(* Every call to the server and each of its outcomes: startup, the          *)
(* connection with the repository saved, the template loads, createIssue    *)
(* on the form as the template leaves it, and the saved repositories        *)
(***************************************************************************)
NextCalls ==
    \/ TestApiDone \/ LoadTemplatesDone \/ InitDoneWith({NoName})
    \/ VerifyAndConnectWith(FormConnections, {TRUE}) \/ VerifyDone
    \/ LoadSavedRepositories \/ LoadSavedRepositoriesDone
    \/ SelectTemplate \/ SelectTemplateDone
    \/ CreateIssue \/ CreateIssueCompat \/ CreateIssueDone
    \/ UseRepository \/ UseRepositoryDone \/ DeleteRepository \/ DeleteRepositoryDone

SpecCalls == Init /\ [][NextCalls]_vars

(***************************************************************************)
(* The renderer on its own: updatePreview applied to a body drawn from      *)
(* bounded sets of markdown on a form without fields, and to the forms of   *)
(* the end-to-end scenario and of typed HTML.  A tag that is typed is one   *)
(* token of the text, as a tag that a rewrite writes; the bodies hold none  *)
(* of the tags the rewrites write.  The page stands connected with a        *)
(* template of a blank body loaded; the body was typed and the listener     *)
(* has not run yet                                                          *)
(***************************************************************************)
\* one line of text over the characters of emphasis and inline code
InlineChars == {"*", "a", " ", "BACKTICK"}
MaxInline == 5

RECURSIVE OneLiners(_)
OneLiners(n) ==
    IF n = 0 THEN { <<>> }
    ELSE OneLiners(n - 1) \cup { Append(s, c) : s \in OneLiners(n - 1), c \in InlineChars }

\* the lines a text is made of: blank ones, plain text, list items, a
\* header, a quote, a rule, the fences of a code block, inline code, a link
\* and images
RenderLines ==
    { <<>>, <<" ">>, <<"x">>,
      <<"-", " ", "a">>, <<"1", ".", " ", "b">>,
      <<"#", " ", "h">>, <<">", " ", "q">>, <<"-", "-", "-">>,
      Fence \o <<"j", "s">>, Fence,
      <<"BACKTICK", "a", "BACKTICK">>,
      <<"[", "t", "]", "(", "u", ")">>,
      <<"!", "[", "a", "]", "(", "u", ")">>, <<"!", "[", "]", "(", "u", ")">> }
MaxLines == 3

\* the texts of n lines at most
RECURSIVE Texts(_)
Texts(n) ==
    IF n = 1 THEN RenderLines
    ELSE Texts(n - 1) \cup { t \o <<"\n">> \o l : t \in Texts(n - 1), l \in RenderLines }

\* the bodies of the contract's examples
TwoBullets == <<"-", " ", "o", "n", "e", "\n", "-", " ", "t", "w", "o">>
BoldThenItalic == <<"*", "*", "a", "*", "*", " ", "*", "b", "*">>
Paragraphed == <<"x", "\n", "\n", "x", "\n", "x", "\n", "\n", " ">>
HelloBody ==
    <<"H", "e", "l", "l", "o", " ", "{", "n", "a", "m", "e", "}", ",", " ", "p", "r", "i", "o", "r", "i", "t", "y", " ">>
    \o <<"{", "p", "r", "i", "o", "r", "i", "t", "y", "}">>
HelloFields ==
    << Control(<<"n", "a", "m", "e">>, "text", <<"A", "l", "i", "c", "e">>, FALSE, FALSE, <<>>),
       Control(<<"p", "r", "i", "o", "r", "i", "t", "y">>, "select", <<"H", "i", "g", "h">>, FALSE, FALSE,
               << <<"L", "o", "w">>, <<"H", "i", "g", "h">> >>) >>

\* HTML typed into the body, and into a field the body has a token for
TypedTags == {"<script>", "</script>", "<img src=x onerror=alert(1)>"}
HtmlForms ==
    { << <<"<script>", "x", "</script>">>, <<>> >>,
      << <<"a", "<img src=x onerror=alert(1)>">>, <<>> >>,
      << Placeholder(<<"a">>),
         <<Control(<<"a">>, "text", <<"<img src=x onerror=alert(1)>">>, FALSE, FALSE, <<>>)>> >> }

RenderForms ==
    { <<b, <<>>>> : b \in OneLiners(MaxInline) \cup Texts(MaxLines)
                           \cup {TwoBullets, BoldThenItalic, Paragraphed} }
    \cup { <<HelloBody, HelloFields>> }
    \cup HtmlForms

InitRender ==
    /\ currentUser = <<"u">> /\ currentRepository = <<"r">> /\ currentToken = Ghp \o <<"1">>
    /\ currentTemplate = [name |-> "bug", title |-> <<>>, body |-> <<>>, labels |-> <<"bug">>]
    /\ templates = TemplateNames
    /\ savedRepositories = <<>>
    /\ title = <<"T">>
    /\ \E f \in RenderForms : body = f[1] /\ fields = f[2]
    /\ preview = PreviewPlaceholder
    /\ processedMarkdown = Null
    /\ hidden = {"connection-section", "template-section"}
    /\ listening = TRUE
    /\ initPc = "done"
    /\ net = <<>>
    /\ timers = <<>>
    /\ draft = NoDraft
    /\ result = NoMessage
    /\ uncaught = FALSE
    /\ console = { Logged(currentUser, currentRepository, Masked) }

NextRender == RefreshPreview

SpecRender == InitRender /\ [][NextRender]_vars

(***************************************************************************)
(* The substitution contract                                                *)
(***************************************************************************)
\* the create requests in flight and the bodies they carry
Creating == { i \in 1..Len(net) : net[i].kind = "create" }
SentBodies == { net[i].data.issueData.body : i \in Creating }

\* updatePreview has rendered the form
Previewed == processedMarkdown # Null

\* the contract's substitution: one scan of the text, each token of a key
\* replaced by the key's value, the inserted text never looked at again
RECURSIVE SinglePass(_, _)
SinglePass(text, entries) ==
    IF text = <<>> THEN <<>>
    ELSE LET hits == { i \in 1..Len(entries) : StartsWith(text, Placeholder(entries[i].key)) }
         IN  IF hits = {}
             THEN <<Head(text)>> \o SinglePass(Tail(text), entries)
             ELSE LET e == entries[CHOOSE i \in hits : TRUE]
                  IN  e.value \o SinglePass(Drop(text, Len(Placeholder(e.key))), entries)

\* no name of the form holds a character that is special in a pattern
PlainNames(fs) == \A i \in 1..Len(fs) : Range(fs[i].name) \cap {".", "("} = {}
\* no value of the form holds a "$"
PlainValues(fs) == \A i \in 1..Len(fs) : fs[i].type = "checkbox" \/ "$" \notin Range(fs[i].value)
\* C1: substitution is a single pass.  With plain names and values, what
\* updatePreview hands to the renderer and what createIssue sends is the body
\* (trimmed by createIssue) with each token replaced by its field's value once:
\* a value that holds the token of another field stays as it was typed
C1_SinglePass ==
    (PlainNames(fields) /\ PlainValues(fields)) =>
        /\ Previewed => processedMarkdown = SinglePass(body, PreviewFieldValues(fields))
        /\ \A sent \in SentBodies : sent = SinglePass(Trim(body), IssueFieldValues(fields))

\* the orders the controls of a form can stand in
Reorderings(fs) == { [i \in 1..Len(fs) |-> fs[p[i]]] : p \in Permutations(1..Len(fs)) }

\* C2: the substituted text does not depend on the order of the fields: the
\* text of the preview and the body sent are what the same substitution gives
\* for every other order of the form's controls
C2_OrderIndependent ==
    \A gs \in Reorderings(fields) :
        /\ Previewed => Substitute(body, PreviewFieldValues(gs)) = processedMarkdown
        /\ \A sent \in SentBodies : Substitute(Trim(body), IssueFieldValues(gs)) = sent

\* C3: every occurrence of the token of a key is replaced by the value,
\* character for character, whatever the characters of the value: on a form
\* of one control of a plain name the result is the body with the value
\* standing wherever the token stood
C3_ValueVerbatim ==
    (Len(fields) = 1 /\ PlainNames(fields)) =>
        /\ Previewed => processedMarkdown = SinglePass(body, PreviewFieldValues(fields))
        /\ \A sent \in SentBodies : sent = SinglePass(Trim(body), IssueFieldValues(fields))

\* the names a token of the body can carry
TokenNames == { <<"a">>, <<"b">>, <<"u">> }
FieldNames(fs) == { fs[i].name : i \in 1..Len(fs) }

\* what C4 says of the text out that the substitution made of the text in
Untouched(in, out) ==
    /\ \A n \in TokenNames \ FieldNames(fields) :
            Contains(in, Placeholder(n)) => Contains(out, Placeholder(n))
    /\ (\A n \in FieldNames(fields) : ~Contains(in, Placeholder(n))) => out = in

\* C4: a token whose name is no key of the field map stands in the output as
\* it stood in the body, and a body without the token of any key comes out
\* unchanged
C4_UnknownTokensStay ==
    /\ Previewed => Untouched(body, processedMarkdown)
    /\ \A sent \in SentBodies : Untouched(Trim(body), sent)

\* C5: the token of a checkbox becomes the yes text or the no text, in the
\* preview and in the body sent: on a form of one checkbox whose token is the
\* body, both are the yes text when it is ticked and the no text when not
C5_CheckboxYesNo ==
    (Len(fields) = 1 /\ fields[1].type = "checkbox" /\ Trim(body) = Placeholder(fields[1].name)) =>
        LET answer == IF fields[1].checked THEN Yes ELSE No
        IN  /\ Previewed => Trim(processedMarkdown) = answer
            /\ \A sent \in SentBodies : sent = answer

\* C6: the substitution never raises: no handler ends by an exception of
\* updatePreview and createIssue never ends in its catch
C6_NeverRaises ==
    /\ ~uncaught
    /\ result # Message("error", "Error creating issue")

(***************************************************************************)
(* Preview and submit                                                       *)
(***************************************************************************)
\* what #preview shows when it is in step with the form
Rendering(b, fs) ==
    IF Trim(b) = <<>> THEN PreviewPlaceholder
    ELSE MarkdownToHtml(Substitute(b, PreviewFieldValues(fs)))

\* C7: whenever no handler runs, #preview shows the rendering of the
\* substituted body, or the placeholder when the body is blank (stated for the
\* forms whose names are plain, for which the substitution is defined)
C7_PreviewInStep ==
    PlainNames(fields) => preview = Rendering(body, fields)

\* the keys of the payload
PayloadKeys == {"title", "body", "token", "username", "repo_name", "labels"}

\* C8: a request that createIssue sends to the main endpoint carries the six
\* keys: the trimmed title, the trimmed body with its placeholders replaced
\* (the markdown, not the HTML of the preview), the credentials of the session,
\* which are those typed for a connection, and the labels of the template
\* selected; the request to the compatibility endpoint carries the data of the
\* request it stands in for
C8_Payload ==
    [][\A j \in 1..Len(net') :
        (net'[j].kind = "create" /\ net'[j] \notin Range(net)) =>
            LET sent == net'[j].data.issueData
            IN  \/ /\ net'[j].data.endpoint = "/api/issues/create"
                   /\ DOMAIN sent = PayloadKeys
                   /\ sent.title = Trim(title)
                   /\ sent.body = Substitute(Trim(body), IssueFieldValues(fields))
                   /\ sent.token = currentToken
                   /\ sent.username = currentUser
                   /\ sent.repo_name = currentRepository
                   /\ \E c \in IssueConnections :
                        /\ sent.token = Trim(c.token)
                        /\ sent.username = Trim(c.username)
                        /\ sent.repo_name = Trim(c.repo_name)
                   /\ sent.labels = IF currentTemplate = NoTemplate THEN <<>>
                                    ELSE TemplateDetails(currentTemplate.name).template.labels
                \/ /\ net'[j].data.endpoint = "/api/create-issue"
                   /\ \E i \in 1..Len(net) :
                        /\ net[i].kind = "create"
                        /\ net[i].data.endpoint = "/api/issues/create"
                        /\ net[i].data.issueData = sent]_vars

\* a request stands at the compatibility endpoint: it carries the labels of
\* the template and the title and body typed, trimmed and substituted
C8_Witness ==
    \E i \in Creating :
        /\ net[i].data.endpoint = "/api/create-issue"
        /\ net[i].data.issueData.labels = <<"bug">>
        /\ net[i].data.issueData.title = <<"T">> /\ title = <<"T", " ">>
        /\ net[i].data.issueData.body # Trim(body)
        /\ net[i].data.issueData.username = <<"v">>

\* the fields of the form are text, textarea or select controls
Typed(fs) == \A i \in 1..Len(fs) : fs[i].type \in {"text", "textarea", "select"}

\* C9, as stated: with text, textarea and select fields the body sent is the
\* text updatePreview handed to the renderer for the same form
C9_SameAsPreviewed ==
    (Typed(fields) /\ Previewed) => \A sent \in SentBodies : sent = processedMarkdown

\* C9: with text, textarea and select fields the body sent is the substitution
\* of the preview applied to the trimmed body; it is the text updatePreview
\* handed to the renderer when the body has no white space at its ends
C9_SameOnTrimmedBody ==
    Typed(fields) =>
        \A sent \in SentBodies :
            /\ sent = Substitute(Trim(body), PreviewFieldValues(fields))
            /\ (Previewed /\ Trim(body) = body) => sent = processedMarkdown

\* a body with white space at its end and a token of a field, previewed and sent
C9_Witness ==
    /\ Typed(fields) /\ fields # <<>> /\ Previewed
    /\ \E sent \in SentBodies : sent # processedMarkdown /\ sent # Trim(body)

\* C10: a template response is never dropped: the step that takes a template
\* response either leaves the form as it is (the response was no success) or
\* leaves currentTemplate, the title, the body, the controls and the preview
\* as the template of that response gives them, whatever the form held and
\* whatever else is in flight
C10_LastArrivalWins ==
    [][\A i \in 1..Len(net) :
        (net[i].kind = "template" /\ net' = Remove(net, i)) =>
            LET d == TemplateDetails(net[i].data)
            IN  \/ UNCHANGED <<currentTemplate, title, body, fields, preview>>
                \/ /\ currentTemplate' = d.template
                   /\ title' = d.template.title
                   /\ body' = d.template.body
                   /\ fields' = RenderTemplateFields(d.fields)
                   /\ preview' = Rendering(d.template.body, fields')]_vars

(***************************************************************************)
(* Errors of the calls to the server                                        *)
(***************************************************************************)
\* a step in which a handler takes the response of its call, the call having
\* ended as outcome
Answered(outcome) ==
    \/ TestApiResponse(outcome)
    \/ LoadTemplatesResponse(outcome)
    \/ InitResponse(outcome, TemplateNames \cup {NoName})
    \/ \E i \in 1..Len(net) :
        \/ VerifyResponse(i, outcome)
        \/ LoadSavedRepositoriesResponse(i, outcome)
        \/ SelectTemplateResponse(i, outcome)
        \/ CreateIssueResponse(i, outcome)
        \/ UseRepositoryResponse(i, outcome)
        \/ DeleteRepositoryResponse(i, outcome)

\* C11: every call to the server that ends with a status that is not 2xx or
\* with a body that is no JSON leaves an error message in #result, whichever
\* of the calls it is: the API test, the template list, the details of a
\* template, the verification, the creation of the issue, the list of saved
\* repositories, the lookup of one and the deletion of one
C11_ErrorsShown ==
    [][ \A outcome \in {"status", "malformed"} :
            Answered(outcome) => result'.type = "error" ]_vars

\* a step in which createIssue or verifyAndConnect takes a response that is
\* no success: the fetch rejected, a body that is no JSON, or success false
\* (which a status that is not 2xx comes with)
Failed ==
    \E i \in 1..Len(net), outcome \in Outcomes \ {"success"} :
        CreateIssueResponse(i, outcome) \/ VerifyResponse(i, outcome)

\* the messages a failed createIssue and a failed verifyAndConnect show
Failures ==
    { Message("error", "Error creating issue"), Message("error", "Failed to create issue"),
      Message("error", "Connection error"), Message("error", "Connection failed") }

\* C12: a failed createIssue or verifyAndConnect leaves the title, the body,
\* the field controls, currentTemplate and the session credentials as they
\* were and schedules no timer (so no clearForm), and it does not block a
\* retry: the sections stay as they were, and the next Create click on a
\* valid form, like the next Connect click, sends a new request with the
\* data of the form
C12_FailureKeepsForm ==
    [][ /\ Failed => UNCHANGED <<form, currentTemplate, session, timers, hidden>>
        /\ (result \in Failures /\ CreateIssue /\ Rejection(title, body, fields) = NoMessage)
              => /\ Len(net') = Len(net) + 1
                 /\ net'[Len(net')].kind = "create"
                 /\ net'[Len(net')].data.issueData = IssueData(title, body, fields)
        /\ (result \in Failures /\ VerifyAndConnect
                /\ result' = Message("loading", "Verifying credentials..."))
              => /\ Len(net') = Len(net) + 1
                 /\ net'[Len(net')].kind = "verify" ]_vars

\* a create request was answered with success false: the form is still
\* filled and valid, the session is there, no timer waits
C12_Witness ==
    /\ result = Message("error", "Failed to create issue")
    /\ Visible("issue-creation-section")
    /\ Rejection(title, body, fields) = NoMessage
    /\ currentTemplate # NoTemplate
    /\ currentToken # Null
    /\ timers = <<>>

(***************************************************************************)
(* The renderer contract                                                    *)
(***************************************************************************)
\* the positions of the asterisks of s
Stars(s) == { i \in 1..Len(s) : s[i] = "*" }

\* s has one emphasis marker and nothing to close it: its asterisks are one
\* "*" or one "**"
Unterminated(s) ==
    \/ Cardinality(Stars(s)) = 1
    \/ Cardinality(Stars(s)) = 2 /\ \E i \in Stars(s) : i + 1 \in Stars(s)

\* C13: the rendering of a body whose one emphasis marker has no closer
\* (as "*a" and "**a") raises no error, shows the asterisks of the marker
\* as they were typed and has no emphasis element
C13_UnterminatedLiteral ==
    (Previewed /\ Unterminated(body))
        => /\ ~uncaught
           /\ Occurrences(preview, <<"*">>) = Cardinality(Stars(body))
           /\ Range(preview) \cap {"<em>", "</em>", "<strong>", "</strong>"} = {}

\* the positions of tag in html
Positions(html, tag) == { i \in 1..Len(html) : html[i] = tag }

\* html has one <ul> ... </ul> pair and every list item lies inside it
OneList(html) ==
    /\ Cardinality(Positions(html, "<ul>")) = 1
    /\ Cardinality(Positions(html, "</ul>")) = 1
    /\ \A u \in Positions(html, "<ul>"), v \in Positions(html, "</ul>") :
         \A i \in Positions(html, "<li>") \cup Positions(html, "</li>") : u < i /\ i < v

\* C14: the rendering of "- one\n- two" contains the two items next to each
\* other, <li>one</li><li>two</li>, and exactly one <ul> ... </ul> pair,
\* which encloses both
C14_TwoBullets ==
    (Previewed /\ body = TwoBullets)
        => /\ Contains(preview, <<"<li>", "o", "n", "e", "</li>", "<li>", "t", "w", "o", "</li>">>)
           /\ Cardinality(Positions(preview, "<li>")) = 2
           /\ OneList(preview)

\* a bullet line "- text" or a numbered line "N. text"
IsItem(line) ==
    \/ StartsWith(line, <<"-", " ">>)
    \/ \E d \in 1..Len(line) :
         /\ \A k \in 1..d : line[k] \in Digits
         /\ At(line, <<".", " ">>, d + 1)

\* the lines of s that are items, and those that start a run of items
Items(s) == { i \in 1..Len(SplitLines(s)) : IsItem(SplitLines(s)[i]) }
Runs(s) == { i \in Items(s) : i - 1 \notin Items(s) }

\* position k of html lies within a <li> ... </li>
InItem(html, k) ==
    \E i \in Positions(html, "<li>") :
        i <= k /\ \E j \in Positions(html, "</li>") :
                     k <= j /\ \A e \in Positions(html, "</li>") : ~(i < e /\ e < j)

\* position k of html lies within a <ul> ... </ul>
InList(html, k) ==
    \E u \in Positions(html, "<ul>") :
        u < k /\ \E v \in Positions(html, "</ul>") :
                    k < v /\ \A e \in Positions(html, "</ul>") : ~(u < e /\ e < v)

\* C15: every bullet line and every numbered line becomes one <li>, every
\* run of items gets a <ul> of its own (two lists with other text between
\* them give two <ul>), and a <ul> encloses nothing but list items (the
\* breaks of the lines apart)
C15_ListPerRun ==
    Previewed
        => /\ Cardinality(Positions(preview, "<li>")) = Cardinality(Items(body))
           /\ Cardinality(Positions(preview, "<ul>")) = Cardinality(Runs(body))
           /\ \A k \in 1..Len(preview) :
                (InList(preview, k) /\ preview[k] \notin {"<br>", "<p>", "</p>"})
                    => InItem(preview, k)

\* plain text: no character of a markdown pattern in it
Plain(s) == s # <<>> /\ Range(s) \subseteq {"a", "x", " "}

\* text typed as inline code, and as a fenced block of language lang
Inline(text) == <<"BACKTICK">> \o text \o <<"BACKTICK">>
Fenced(lang, text) == Fence \o lang \o <<"\n">> \o text \o <<"\n">> \o Fence

\* C16: inline code is rendered as <code>text</code>, and a fenced block
\* (three backticks, a language or none, a newline, the content, a newline,
\* three backticks) as <pre><code class="language-LANG">content</code></pre>
C16_Code ==
    Previewed
        => /\ \A k \in 1..Len(body) :
                (body = Inline(SubSeq(body, 2, k)) /\ Plain(SubSeq(body, 2, k)))
                    => preview = <<"<p>", "<code>">> \o SubSeq(body, 2, k)
                                    \o <<"</code>", "</p>">>
           /\ \A lang \in { <<>>, <<"j", "s">> } :
                body = Fenced(lang, <<"x">>)
                    => Contains(preview,
                            <<"<pre><code class=\"language-">> \o lang \o <<"\">">>
                            \o <<"x">> \o <<"</code></pre>">>)

\* a link and an image as they are typed
Link(text, url) == <<"[">> \o text \o <<"]", "(">> \o url \o <<")">>
Image(alt, url) == <<"!">> \o Link(alt, url)

\* C17: a link [text](url) is rendered as an anchor to url that opens in a
\* new tab with noopener and noreferrer set; an image ![alt](url), its alt
\* text empty or not, is rendered as an <img> with that src, that alt and a
\* max-width, and as no anchor
C17_LinksAndImages ==
    Previewed
        => /\ body = Link(<<"t">>, <<"u">>)
                => preview = <<"<p>", "<a href=\"", "u",
                               "\" target=\"_blank\" rel=\"noopener noreferrer\">",
                               "t", "</a>", "</p>">>
           /\ \A alt \in { <<>>, <<"a">> } :
                body = Image(alt, <<"u">>)
                    => preview = <<"<p>", "<img src=\"", "u", "\" alt=\"">> \o alt
                            \o <<"\" style=\"max-width: 100%; border-radius: 6px; margin: 10px 0;\">",
                                 "</p>">>

\* every asterisk of s belongs to a well-formed **text**: the text is not
\* empty and has no asterisk
RECURSIVE BoldOnly(_)
BoldOnly(s) ==
    LET i == FirstOf(s, {"*"}, 1)
        j == FirstOf(s, {"*"}, i + 2)
    IN  \/ i = 0
        \/ /\ At(s, <<"*", "*">>, i)
           /\ j > i + 2
           /\ At(s, <<"*", "*">>, j)
           /\ BoldOnly(Drop(s, j + 1))

RECURSIVE Paras(_)
Paras(s) ==
    IF \E i \in 1..Len(s) : At(s, <<"\n", "\n">>, i)
    THEN LET i == CHOOSE k \in 1..Len(s) :
                      /\ At(s, <<"\n", "\n">>, k)
                      /\ \A e \in 1..(k - 1) : ~At(s, <<"\n", "\n">>, e)
         IN  <<Take(s, i - 1)>> \o Paras(Drop(s, i + 1))
    ELSE <<s>>

\* the paragraphs with something to show, and the newlines that are part of
\* no double newline
Shown(s) == { i \in 1..Len(Paras(s)) : ~(Range(Paras(s)[i]) \subseteq {" ", "\t"}) }
Singles(s) == Occurrences(s, <<"\n">>) - 2 * (Len(Paras(s)) - 1)

\* html has a <p> followed by white space only and </p>
EmptyParagraph(html) ==
    \E i \in Positions(html, "<p>"), j \in Positions(html, "</p>") :
        i < j /\ \A k \in (i + 1)..(j - 1) : html[k] \in WhiteSpace

\* C19: in the rendering of a body that is not blank each double newline
\* has become a paragraph break and each other newline a <br>, the whole
\* is wrapped in <p> ... </p>, and no paragraph is empty: no newline is
\* left, there are as many <br> as single newlines, and the paragraphs are
\* those between the double newlines that have something to show
C19_Paragraphs ==
    Previewed
        => /\ "\n" \notin Range(preview)
           /\ Cardinality(Positions(preview, "<br>")) = Singles(body)
           /\ Head(preview) = "<p>" /\ preview[Len(preview)] = "</p>"
           /\ Cardinality(Positions(preview, "<p>")) = Cardinality(Shown(body))
           /\ Cardinality(Positions(preview, "</p>")) = Cardinality(Shown(body))
           /\ Occurrences(preview, <<"</p>", "<p>">>) = Cardinality(Shown(body)) - 1
           /\ ~EmptyParagraph(preview)

\* a body of three paragraphs, the second of two lines and the third
\* blank, has been rendered
C19_Witness ==
    /\ Previewed
    /\ body = Paragraphed
    /\ preview = <<"<p>", "x", "</p>", "<p>", "x", "<br>", "x", "</p>">>

\* the substituted body of the end-to-end scenario
HelloText ==
    <<"H", "e", "l", "l", "o", " ", "A", "l", "i", "c", "e", ",", " ">>
    \o <<"p", "r", "i", "o", "r", "i", "t", "y", " ", "H", "i", "g", "h">>

\* the characters the patterns of the renderer look for
MarkdownChars ==
    {"*", "BACKTICK", "#", "-", ">", "[", "]", "(", ")", "!", ".", "\n"} \cup Digits

\* C20: with the body "Hello {name}, priority {priority}" and the fields
\* name = Alice and priority = High the substituted body is "Hello Alice,
\* priority High" and #preview is exactly <p>Hello Alice, priority High</p>;
\* a substituted body without markdown tokens and without a newline is
\* rendered as <p> + body + </p>
C20_EndToEnd ==
    Previewed
        => /\ (body = HelloBody /\ fields = HelloFields)
                => /\ processedMarkdown = HelloText
                   /\ preview = <<"<p>">> \o HelloText \o <<"</p>">>
           /\ Range(processedMarkdown) \cap MarkdownChars = {}
                => preview = <<"<p>">> \o processedMarkdown \o <<"</p>">>

\* the form of the scenario has been rendered
C20_Witness ==
    /\ body = HelloBody /\ fields = HelloFields
    /\ processedMarkdown = HelloText
    /\ preview = <<"<p>">> \o HelloText \o <<"</p>">>

(***************************************************************************)
(* Determinism and sanitizing of the preview                                *)
(***************************************************************************)
\* a step in which a handler runs updatePreview on the form it leaves
Ran ==
    \/ RefreshPreview
    \/ listening /\ (BodyInputFrom({body'}) \/ TitleInputFrom({title'}))
    \/ FieldInputFrom({ fields'[i].value : i \in 1..Len(fields') })
    \/ ApplyStyle
    \/ \E i \in 1..Len(net) : SelectTemplateResponse(i, "success")

\* updatePreview runs to its end on the form: the patterns of its keys compile
Completes(b, fs) == Trim(b) = <<>> \/ Substitute(b, PreviewFieldValues(fs)) # Thrown

\* C21: the preview is deterministic: a run of updatePreview leaves in
\* #preview the HTML that is a function of the body and the field values
\* alone, the same whatever events, earlier renders and session came before
\* (a run that ends by an exception writes no HTML at all)
C21_Deterministic ==
    [][ Ran => IF Completes(body', fields')
               THEN preview' = Rendering(body', fields')
               ELSE preview' = preview ]_vars

\* the same form was rendered before: #preview holds the rendering of a body
\* typed over the template's, after an earlier render and a connection
C21_Witness ==
    /\ body = <<"{", "a", "}">>
    /\ fields # <<>> /\ fields[1].value = <<"2">>
    /\ currentToken # Null
    /\ preview = <<"<p>", "2", "</p>">>

\* C22: what the user typed is sanitized before it is displayed: no tag
\* typed into the body or into a field value stands in #preview as it was
\* typed, every tag of the preview is one that a rewrite has written
C22_Sanitized ==
    Previewed => Range(preview) \cap TypedTags = {}

(***************************************************************************)
(* The checks of createIssue                                                *)
(***************************************************************************)
\* the session is connected
Connected == currentUser # Null /\ currentRepository # Null /\ currentToken # Null

\* a step that puts a new request of the given kind in flight
Sends(kind) == Len(net') = Len(net) + 1 /\ net'[Len(net')].kind = kind

\* C23: createIssue sends no request unless the session is connected, the
\* trimmed title and the trimmed body are not empty and every required
\* field is filled; a createIssue that sends nothing shows an error message
\* and leaves the form and the session as they were
C23_NoRequestUnlessValid ==
    [][ /\ Sends("create")
            => /\ Connected
               /\ currentUser # <<>> /\ currentRepository # <<>> /\ currentToken # <<>>
               /\ Trim(title) # <<>> /\ Trim(body) # <<>>
               /\ MissingRequired(fields) = {}
        /\ (CreateIssue /\ net' = net)
            => /\ result'.type = "error"
               /\ UNCHANGED <<form, session, currentTemplate, hidden, timers, draft>> ]_vars

\* createIssue has refused a form whose required field is empty, on a
\* connected session
C23_Witness ==
    /\ Connected
    /\ result = Message("error", "Please fill required field")
    /\ MissingRequired(fields) # {}
    /\ ~\E i \in 1..Len(net) : net[i].kind = "create"

(***************************************************************************)
(* The session                                                              *)
(***************************************************************************)
\* the session is that of one connection typed by the user, trimmed
SessionOf(c) ==
    /\ currentUser = Trim(c.username) /\ currentUser # <<>>
    /\ currentRepository = Trim(c.repo_name) /\ currentRepository # <<>>
    /\ currentToken = Trim(c.token) /\ currentToken # <<>>

NoSession == currentUser = Null /\ currentRepository = Null /\ currentToken = Null

\* C24: currentUser, currentRepository and currentToken are all null, or
\* all set, not empty, and the trimmed username, repository and token of one
\* verification; they change only when a verification request is answered
\* with success true, to the data of that request, in whatever order the
\* verifications in flight are answered; once set they are never null again
C24_SessionOfOneRequest ==
    /\ NoSession
    /\ [][ /\ (NoSession \/ \E c \in InputConnections : SessionOf(c))'
           /\ session' # session
                => \E i \in 1..Len(net) :
                     /\ VerifyResponse(i, "success")
                     /\ currentUser' = net[i].data.username
                     /\ currentRepository' = net[i].data.repo_name
                     /\ currentToken' = net[i].data.token
           /\ ~NoSession => ~NoSession' ]_vars

\* a second verification, of another connection, was answered with success
\* after the first: the session is the second one's
C24_Witness ==
    /\ SessionOf(Connection(<<" ", "v">>, <<"r", " ">>, <<"t">>))
    /\ Cardinality({ k \in 1..Len(timers) : timers[k].kind = "loadDraft" }) = 2

(***************************************************************************)
(* The two endpoints of createIssue                                         *)
(***************************************************************************)
\* the four checks of createIssue pass
PassesValidation ==
    /\ Connected
    /\ Trim(title) # <<>> /\ Trim(body) # <<>>
    /\ MissingRequired(fields) = {}

\* the requests in flight to an endpoint of createIssue
InFlightTo(n, endpoint) ==
    Cardinality({ i \in 1..Len(n) : n[i].kind = "create" /\ n[i].data.endpoint = endpoint })

\* C25: a createIssue that passes validation sends one request to
\* /api/issues/create and none to /api/create-issue; a request goes to
\* /api/create-issue only in place of one to /api/issues/create whose fetch
\* rejected, with the same data; an answer of either endpoint, an HTTP error
\* included, sends nothing: two requests per invocation at most, of which
\* one at most is answered
C25_MainThenCompat ==
    [][ /\ (CreateIssue /\ PassesValidation)
            => /\ InFlightTo(net', "/api/issues/create")
                    = InFlightTo(net, "/api/issues/create") + 1
               /\ InFlightTo(net', "/api/create-issue")
                    = InFlightTo(net, "/api/create-issue")
        /\ InFlightTo(net', "/api/issues/create") > InFlightTo(net, "/api/issues/create")
            => CreateIssue /\ PassesValidation
        /\ InFlightTo(net', "/api/create-issue") > InFlightTo(net, "/api/create-issue")
            => /\ CreateIssueCompat
               /\ InFlightTo(net', "/api/issues/create")
                    = InFlightTo(net, "/api/issues/create") - 1
               /\ InFlightTo(net', "/api/create-issue")
                    = InFlightTo(net, "/api/create-issue") + 1
        /\ \A i \in 1..Len(net) : \A outcome \in Outcomes :
             CreateIssueResponse(i, outcome)
                => /\ ~(outcome = "rejected" /\ net[i].data.endpoint = "/api/issues/create")
                   /\ net' = Remove(net, i) ]_vars

(***************************************************************************)
(* The delayed clearForm                                                    *)
(***************************************************************************)
\* C26: the clearForm that runs 5 seconds after a created issue discards the
\* submitted issue only: it leaves the session alone, shows the template
\* section, and a title, a body or a template other than the submitted
\* ones, which the user entered or selected after the success response, is
\* still there after it; one such clearForm runs per created issue
C26_ClearsSubmittedOnly ==
    [][ ClearFormTimer
            => /\ UNCHANGED session
               /\ (title = Submitted.template.title /\ body = Submitted.template.body
                        /\ currentTemplate = Submitted.template)
                    => /\ title' = <<>> /\ body' = <<>> /\ fields' = <<>>
                       /\ currentTemplate' = NoTemplate
                       /\ Visible("template-section")'
               /\ title # Submitted.template.title => title' = title
               /\ body # Submitted.template.body => body' = body
               /\ currentTemplate # Submitted.template => currentTemplate' = currentTemplate
               /\ timers' = <<>> ]_vars

(***************************************************************************)
(* The draft of a created issue                                             *)
(***************************************************************************)
\* the draft in local storage is one of the submitted title and body
DraftOfSubmitted ==
    draft.title = Submitted.template.title /\ draft.body = Submitted.template.body

\* C27: the draft is removed when the issue is created, and when the delayed
\* clearForm has run, the success message still shown until then (nothing
\* was loaded or saved by hand since), local storage holds no draft of the
\* submitted title and body, wherever the auto-save fell in between
C27_DraftGone ==
    [][ (ClearFormTimer /\ result = Message("success", "Issue Created Successfully!"))
            => ~DraftOfSubmitted' ]_vars

(***************************************************************************)
(* The sections                                                             *)
(***************************************************************************)
\* C28: exactly one of the connection, template and issue-creation sections
\* is visible, and the issue-creation section only when the session is
\* connected
C28_OneSection ==
    /\ Cardinality({ s \in Sections : Visible(s) }) = 1
    /\ Visible("issue-creation-section") => Connected

(***************************************************************************)
(* The token                                                                *)
(***************************************************************************)
\* the tokens the user may have typed
Tokens == { Trim(c.token) : c \in InputConnections }

\* C29: the token is in no entry of the console and in no part of the draft
\* in local storage, so that neither depends on the token
C29_TokenStaysIn ==
    /\ \A e \in console : e.token \notin Tokens
    /\ draft.title \notin Tokens /\ draft.body \notin Tokens
    /\ draft.repository \notin Tokens

====
